---- MODULE Spec2Model ----
\* Model of the Picard plugins registry (registry_lib): the in-memory
\* Registry object, the persisted plugins.toml document, the library
\* operations add_plugin / update_plugin and the CLI commands that load the
\* file, perform one operation and write the file back.
\*
\* Text is modelled as a sequence of one-character strings so that the
\* parsing and normalisation code is computed character by character.
\* An optional argument (Python None or a value) is a sequence of length
\* zero or one.
EXTENDS Integers, Sequences, FiniteSets, TLC

\* ---------------------------------------------------------------------
\* Bounds of the model
\* ---------------------------------------------------------------------
\* the last clock reading a successful library call takes (the registries
\* of Init were built at the times 1 and 2, so the clock starts at 3)
MaxTime == 3
\* the last clock reading a successful CLI command takes
MaxCmdTime == 3
\* the last clock reading a successful add_blacklist takes
MaxStoreTime == 5
\* the longest refs specification built from the characters of RefChars
MaxRefLen == 3
\* the most tokens of UrlTokens a repository URL is built from
MaxTokens == 3

\* ---------------------------------------------------------------------
\* Text helpers (Python str semantics)
\* ---------------------------------------------------------------------
LowerChars == {"a","b","c","d","e","f","g","h","i","j","k","l","m","n","o","p","q","r","s","t","u","v","w","x","y","z"}
DigitChars == {"0","1","2","3","4","5","6","7","8","9"}
HexChars == DigitChars \cup {"a","b","c","d","e","f","A","B","C","D","E","F"}
SpaceChars == {" "}

\* characters in code point order, used to compare strings as Python does
CharOrder == <<" ", ",", "-", ".", "/", "0","1","2","3","4","5","6","7","8","9", ":", "A","B","C","D","E","F","G","H","I","J","K","L","M","N","O","P","Q","R","S","T","U","V","W","X","Y","Z", "_", "a","b","c","d","e","f","g","h","i","j","k","l","m","n","o","p","q","r","s","t","u","v","w","x","y","z">>

Ord(c) == CHOOSE i \in 1..Len(CharOrder) : CharOrder[i] = c

\* str.lower() on one character
UpperChars == {"A","B","C","D","E","F","G","H","I","J","K","L","M","N","O","P","Q","R","S","T","U","V","W","X","Y","Z"}

LowerChar(c) == IF c \in UpperChars THEN CharOrder[Ord(c) - Ord("A") + Ord("a")] ELSE c

Lower(s) == [i \in 1..Len(s) |-> LowerChar(s[i])]

\* s < t in Python's string order
RECURSIVE StrLess(_, _)
StrLess(s, t) ==
    IF Len(t) = 0 THEN FALSE
    ELSE IF Len(s) = 0 THEN TRUE
    ELSE IF s[1] = t[1] THEN StrLess(Tail(s), Tail(t))
    ELSE Ord(s[1]) < Ord(t[1])

StartsWith(s, p) == Len(s) >= Len(p) /\ SubSeq(s, 1, Len(p)) = p

EndsWith(s, p) == Len(s) >= Len(p) /\ SubSeq(s, Len(s) - Len(p) + 1, Len(s)) = p

\* s[n:]
DropFirst(s, n) == SubSeq(s, n + 1, Len(s))

\* s[:len(s)-n]
DropLast(s, n) == SubSeq(s, 1, Len(s) - n)

\* str.lstrip(chars) / str.rstrip(chars) / str.strip(chars)
RECURSIVE LStrip(_, _)
LStrip(s, cs) == IF Len(s) > 0 /\ s[1] \in cs THEN LStrip(Tail(s), cs) ELSE s

RECURSIVE RStrip(_, _)
RStrip(s, cs) == IF Len(s) > 0 /\ s[Len(s)] \in cs THEN RStrip(DropLast(s, 1), cs) ELSE s

Strip(s, cs) == LStrip(RStrip(s, cs), cs)

\* str.removesuffix(p)
RemoveSuffix(s, p) == IF EndsWith(s, p) THEN DropLast(s, Len(p)) ELSE s

\* c in s
HasChar(s, c) == \E i \in 1..Len(s) : s[i] = c

\* index of the first occurrence of c in s (c occurs in s)
FirstIndex(s, c) == CHOOSE i \in 1..Len(s) : s[i] = c /\ \A j \in 1..(i - 1) : s[j] # c

\* p in s for a non-empty pattern p
Contains(s, p) == \E i \in 1..(Len(s) - Len(p) + 1) : SubSeq(s, i, i + Len(p) - 1) = p

\* a split that leaves the empty pieces out
RECURSIVE Split_DropEmpty(_, _)
Split_DropEmpty(s, c) ==
    IF ~HasChar(s, c) THEN (IF Len(s) = 0 THEN <<>> ELSE <<s>>)
    ELSE (IF FirstIndex(s, c) = 1 THEN <<>> ELSE <<SubSeq(s, 1, FirstIndex(s, c) - 1)>>)
         \o Split_DropEmpty(DropFirst(s, FirstIndex(s, c)), c)

\* s.split(c): the pieces between the occurrences of c, empty pieces kept
RECURSIVE Split(_, _)
Split(s, c) ==
    IF ~HasChar(s, c) THEN <<s>>
    ELSE <<SubSeq(s, 1, FirstIndex(s, c) - 1)>> \o Split(DropFirst(s, FirstIndex(s, c)), c)

\* s.split(c, 1) when c occurs in s: the text before and after the first c
SplitFirst(s, c) == <<SubSeq(s, 1, FirstIndex(s, c) - 1), DropFirst(s, FirstIndex(s, c))>>

\* ---------------------------------------------------------------------
\* utils.derive_plugin_id
\* ---------------------------------------------------------------------
GitSuffix == <<".","g","i","t">>

\* re.search(r"/([^/]+?)(?:\.git)?$", text): the positions of a "/" from
\* which the pattern matches up to the end of the text
RepoMatchStarts(text) ==
    {i \in 1..Len(text) :
        /\ text[i] = "/"
        /\ Len(text) > i
        /\ \A j \in (i + 1)..Len(text) : text[j] # "/"}

\* a group that takes everything after the "/", a ".git" suffix included
RepoGroup_KeepGit(text) ==
    LET start == CHOOSE i \in RepoMatchStarts(text) : \A j \in RepoMatchStarts(text) : i <= j
    IN DropFirst(text, start)

\* group(1) of the leftmost match: the lazy [^/]+? takes the shortest
\* non-empty text after which only an optional ".git" remains
RepoGroup(text) ==
    LET start == CHOOSE i \in RepoMatchStarts(text) : \A j \in RepoMatchStarts(text) : i <= j
        rest == DropFirst(text, start)
        lens == {k \in 1..Len(rest) : DropFirst(rest, k) = <<>> \/ DropFirst(rest, k) = GitSuffix}
        k == CHOOSE n \in lens : \A m \in lens : n <= m
    IN SubSeq(rest, 1, k)

\* the prefixes removed from a repository name, in priority order
ID_PREFIXES == << <<"p","i","c","a","r","d","-","p","l","u","g","i","n","-">>, <<"p","i","c","a","r","d","-">>, <<"p","l","u","g","i","n","-">> >>

\* a loop that starts again after it has removed a prefix
RECURSIVE RemovePrefixFrom_All(_, _)
RemovePrefixFrom_All(repo_name, prefixes) ==
    IF Len(prefixes) = 0 THEN repo_name
    ELSE IF StartsWith(Lower(repo_name), Head(prefixes)) THEN RemovePrefixFrom_All(DropFirst(repo_name, Len(Head(prefixes))), ID_PREFIXES)
    ELSE RemovePrefixFrom_All(repo_name, Tail(prefixes))

\* the loop over the prefixes: the first prefix that matches is removed, then break
RECURSIVE RemovePrefixFrom(_, _)
RemovePrefixFrom(repo_name, prefixes) ==
    IF Len(prefixes) = 0 THEN repo_name
    ELSE IF StartsWith(Lower(repo_name), Head(prefixes)) THEN DropFirst(repo_name, Len(Head(prefixes)))
    ELSE RemovePrefixFrom(repo_name, Tail(prefixes))

RemovePrefix(repo_name) == RemovePrefixFrom(repo_name, ID_PREFIXES)

\* re.sub(r"[^a-z0-9-]", "-", s)
ReplaceInvalid(s) == [i \in 1..Len(s) |-> IF s[i] \in LowerChars \cup DigitChars \cup {"-"} THEN s[i] ELSE "-"]

\* no collapsing of hyphens
CollapseHyphens_Keep(s) == s

\* re.sub(r"-+", "-", s)
RECURSIVE CollapseHyphens(_)
CollapseHyphens(s) ==
    IF Len(s) = 0 THEN s
    ELSE IF s[1] = "-" THEN <<"-">> \o CollapseHyphens(LStrip(s, {"-"}))
    ELSE <<s[1]>> \o CollapseHyphens(Tail(s))

NormalizeId(repo_name) == Strip(CollapseHyphens(ReplaceInvalid(Lower(repo_name))), {"-"})

\* the result is optional: <<>> when the function raises ValueError
derive_plugin_id(git_url) ==
    LET text == RStrip(git_url, {"/"}) IN
    IF RepoMatchStarts(text) = {} THEN <<>>
    ELSE LET plugin_id == NormalizeId(RemovePrefix(RepoGroup(text))) IN
         IF Len(plugin_id) = 0 THEN <<>> ELSE <<plugin_id>>

\* ---------------------------------------------------------------------
\* plugin._parse_refs
\* ---------------------------------------------------------------------
DEFAULT_REF == <<"m","a","i","n">>

\* one segment of the specification, after the split on ","
\* a parse that takes the whole constraint as min_api_version
ParseRefSpec_NoMax(raw) ==
    LET ref_spec == Strip(raw, SpaceChars) IN
    IF HasChar(ref_spec, ":")
    THEN [name |-> Strip(SplitFirst(ref_spec, ":")[1], SpaceChars),
          min_api_version |-> Strip(SplitFirst(ref_spec, ":")[2], SpaceChars)]
    ELSE [name |-> ref_spec]

ParseRefSpec(raw) ==
    LET ref_spec == Strip(raw, SpaceChars) IN
    IF HasChar(ref_spec, ":")
    THEN LET name == SplitFirst(ref_spec, ":")[1]
             api_spec == SplitFirst(ref_spec, ":")[2]
         IN IF HasChar(api_spec, "-")
            THEN [name |-> Strip(name, SpaceChars),
                  min_api_version |-> Strip(SplitFirst(api_spec, "-")[1], SpaceChars),
                  max_api_version |-> Strip(SplitFirst(api_spec, "-")[2], SpaceChars)]
            ELSE [name |-> Strip(name, SpaceChars),
                  min_api_version |-> Strip(api_spec, SpaceChars)]
    ELSE [name |-> ref_spec]

_parse_refs(refs_str) ==
    LET specs == Split(refs_str, ",") IN [i \in 1..Len(specs) |-> ParseRefSpec(specs[i])]

\* ---------------------------------------------------------------------
\* Dictionaries: a dict is a function on its keys
\* ---------------------------------------------------------------------
Has(d, k) == k \in DOMAIN d

SetField(d, k, v) == (k :> v) @@ d

DelField(d, k) == [x \in DOMAIN d \ {k} |-> d[x]]

\* d.get(k, default)
Get(d, k, default) == IF Has(d, k) THEN d[k] ELSE default

\* an optional value: <<>> is None, <<v>> is v
None == <<>>

Some(v) == <<v>>

\* ---------------------------------------------------------------------
\* Manifest validation (registry_lib.picard) and manifest.validate_manifest
\* ---------------------------------------------------------------------
REGISTRY_TRUST_LEVELS == <<"official", "trusted", "community">>

REQUIRED_FIELDS == <<"uuid", "name", "version", "description", "api">>

CAT_UI == <<"u","i">>
CAT_METADATA == <<"m","e","t","a","d","a","t","a">>
CAT_OTHER == <<"o","t","h","e","r">>

VALID_CATEGORIES == {CAT_UI, CAT_METADATA, CAT_OTHER}

\* the canonical 8-4-4-4-12 hexadecimal grouping
IsUuid(u) ==
    /\ Len(u) = 36
    /\ \A i \in 1..36 : IF i \in {9, 14, 19, 24} THEN u[i] = "-" ELSE u[i] \in HexChars

MissingErrors(manifest) ==
    LET Missing(i) == IF Has(manifest, REQUIRED_FIELDS[i]) THEN <<>> ELSE << [error |-> "Missing required field", value |-> REQUIRED_FIELDS[i]] >>
    IN Missing(1) \o Missing(2) \o Missing(3) \o Missing(4) \o Missing(5)

UuidErrors(manifest) ==
    IF Has(manifest, "uuid") /\ ~IsUuid(manifest.uuid) THEN << [error |-> "Invalid uuid", value |-> "uuid"] >> ELSE <<>>

RECURSIVE CategoryErrorsOf(_)
CategoryErrorsOf(cats) ==
    IF Len(cats) = 0 THEN <<>>
    ELSE (IF Head(cats) \in VALID_CATEGORIES THEN <<>> ELSE << [error |-> "Invalid category", value |-> Head(cats)] >>)
         \o CategoryErrorsOf(Tail(cats))

CategoryErrors(manifest) == IF Has(manifest, "categories") THEN CategoryErrorsOf(manifest.categories) ELSE <<>>

\* literal HTML tag syntax in the text: "<", letters (or "/"), ">"
HasHtmlTag(text) ==
    \E i \in 1..Len(text) : \E j \in (i + 2)..Len(text) :
        /\ text[i] = "<"
        /\ text[j] = ">"
        /\ \A k \in (i + 1)..(j - 1) : text[k] \in LowerChars \cup {"/"}

LongDescriptionErrors(manifest) ==
    IF Has(manifest, "long_description") /\ HasHtmlTag(manifest.long_description)
    THEN << [error |-> "HTML tags are not allowed", value |-> "long_description"] >>
    ELSE <<>>

\* fail-fast variant: the errors of the first failing check only
validate_manifest_dict_FailFast(manifest) ==
    IF MissingErrors(manifest) # <<>> THEN SubSeq(MissingErrors(manifest), 1, 1)
    ELSE IF UuidErrors(manifest) # <<>> THEN UuidErrors(manifest)
    ELSE IF CategoryErrors(manifest) # <<>> THEN SubSeq(CategoryErrors(manifest), 1, 1)
    ELSE LongDescriptionErrors(manifest)

\* the complete list of errors; the empty list means valid
validate_manifest_dict(manifest) ==
    MissingErrors(manifest) \o UuidErrors(manifest) \o CategoryErrors(manifest) \o LongDescriptionErrors(manifest)

\* TRUE when validate_manifest raises
validate_manifest(manifest) == validate_manifest_dict(manifest) # <<>>

\* the messages carried by the ValueError of validate_manifest, if it raises
ValidationError(manifest) ==
    IF validate_manifest(manifest) THEN Some(validate_manifest_dict(manifest)) ELSE None

\* ---------------------------------------------------------------------
\* manifest.fetch_manifest: the URL handling before the HTTP request
\* ---------------------------------------------------------------------
GITHUB == <<"g","i","t","h","u","b",".","c","o","m">>
GITLAB == <<"g","i","t","l","a","b",".","c","o","m">>

\* TRUE when the URL is of a supported host; otherwise ValueError
SupportedHost(git_url) ==
    LET url == RemoveSuffix(RStrip(git_url, {"/"}), GitSuffix) IN Contains(url, GITHUB) \/ Contains(url, GITLAB)

\* ---------------------------------------------------------------------
\* registry.Registry
\* ---------------------------------------------------------------------
\* Registry._load: file is <<>> when the path does not exist, else <<doc>>
_load(f) ==
    IF f = <<>> THEN [api_version |-> "3.0", plugins |-> <<>>, blacklist |-> <<>>]
    ELSE IF Has(f[1], "blacklist") THEN f[1] ELSE SetField(f[1], "blacklist", <<>>)

\* sorted(plugins, key=id): a stable insertion sort
RECURSIVE InsertById(_, _)
InsertById(sorted, p) ==
    IF Len(sorted) = 0 THEN <<p>>
    ELSE IF StrLess(p.id, Head(sorted).id) THEN <<p>> \o sorted
    ELSE <<Head(sorted)>> \o InsertById(Tail(sorted), p)

RECURSIVE SortById(_)
SortById(plugins) ==
    IF Len(plugins) = 0 THEN <<>>
    ELSE InsertById(SortById(DropLast(plugins, 1)), plugins[Len(plugins)])

\* the document Registry.save writes: empty collections are left out
SaveData(d) ==
    LET base == [api_version |-> d.api_version]
        withPlugins == IF Len(Get(d, "plugins", <<>>)) > 0 THEN SetField(base, "plugins", d.plugins) ELSE base
    IN IF Len(Get(d, "blacklist", <<>>)) > 0 THEN SetField(withPlugins, "blacklist", d.blacklist) ELSE withPlugins

\* Registry.save: the registry after the call and the file written
save(d) ==
    IF ~Has(d, "plugins") THEN [status |-> "KeyError", data |-> d, file |-> None]
    ELSE LET sorted == [d EXCEPT !.plugins = SortById(d.plugins)]
         IN [status |-> "ok", data |-> sorted, file |-> Some(SaveData(sorted))]

\* Registry.find_plugin: the index of the first entry with the id, 0 for None
find_plugin(plugins, plugin_id) ==
    IF \E i \in 1..Len(plugins) : plugins[i].id = plugin_id
    THEN CHOOSE i \in 1..Len(plugins) : plugins[i].id = plugin_id /\ \A j \in 1..(i - 1) : plugins[j].id # plugin_id
    ELSE 0

\* Registry.remove_plugin
RECURSIVE remove_plugin(_, _)
remove_plugin(plugins, plugin_id) ==
    IF Len(plugins) = 0 THEN <<>>
    ELSE (IF Head(plugins).id # plugin_id THEN <<Head(plugins)>> ELSE <<>>) \o remove_plugin(Tail(plugins), plugin_id)

\* ---------------------------------------------------------------------
\* plugin.add_plugin and plugin.update_plugin
\* ---------------------------------------------------------------------
OPTIONAL_FIELDS == <<"maintainers", "name_i18n", "description_i18n">>

\* a sync that copies the manifest's fields and never deletes one
RECURSIVE _sync_optional_fields_KeepStale(_, _, _)
_sync_optional_fields_KeepStale(plugin, manifest, fields) ==
    IF Len(fields) = 0 THEN plugin
    ELSE LET field == Head(fields)
             synced == IF Has(manifest, field) THEN SetField(plugin, field, manifest[field]) ELSE plugin
         IN _sync_optional_fields_KeepStale(synced, manifest, Tail(fields))

RECURSIVE _sync_optional_fields(_, _, _)
_sync_optional_fields(plugin, manifest, fields) ==
    IF Len(fields) = 0 THEN plugin
    ELSE LET field == Head(fields)
             synced == IF Has(manifest, field) THEN SetField(plugin, field, manifest[field])
                       ELSE IF Has(plugin, field) THEN DelField(plugin, field)
                       ELSE plugin
         IN _sync_optional_fields(synced, manifest, Tail(fields))

\* the ref list add_plugin works with: refs is None, or the specification
RefsList(refs) ==
    IF refs # None /\ Len(refs[1]) > 0 THEN _parse_refs(refs[1]) ELSE << [name |-> DEFAULT_REF] >>

\* a duplicate loop that does not compare the uuid
RECURSIVE DuplicateCheck_NoUuid(_, _, _)
DuplicateCheck_NoUuid(plugins, git_url, uuid) ==
    IF Len(plugins) = 0 THEN "none"
    ELSE IF Head(plugins).git_url = git_url THEN "git_url"
    ELSE DuplicateCheck_NoUuid(Tail(plugins), git_url, uuid)

\* a duplicate check in two passes: every git_url first, then every uuid
DuplicateCheck_TwoPass(plugins, git_url, uuid) ==
    IF \E i \in 1..Len(plugins) : plugins[i].git_url = git_url THEN "git_url"
    ELSE IF \E i \in 1..Len(plugins) : plugins[i].uuid = uuid THEN "uuid"
    ELSE "none"

\* the duplicate loop of add_plugin: per existing entry, git_url then uuid
RECURSIVE DuplicateCheck(_, _, _)
DuplicateCheck(plugins, git_url, uuid) ==
    IF Len(plugins) = 0 THEN "none"
    ELSE IF Head(plugins).git_url = git_url THEN "git_url"
    ELSE IF Head(plugins).uuid = uuid THEN "uuid"
    ELSE DuplicateCheck(Tail(plugins), git_url, uuid)

\* a default test that looks at the name only
IsDefaultRefs_NameOnly(refs_list) ==
    Len(refs_list) = 1 /\ refs_list[1].name = DEFAULT_REF

IsDefaultRefs(refs_list) ==
    Len(refs_list) = 1 /\ refs_list[1].name = DEFAULT_REF /\ ~Has(refs_list[1], "min_api_version")

\* the entry add_plugin builds
BuildPlugin(plugin_id, git_url, trust_level, categories, refs_list, manifest, now) ==
    LET base == [id |-> plugin_id,
                 uuid |-> manifest.uuid,
                 name |-> manifest.name,
                 description |-> manifest.description,
                 git_url |-> git_url,
                 categories |-> IF categories # None /\ Len(categories[1]) > 0 THEN categories[1] ELSE Get(manifest, "categories", <<>>),
                 trust_level |-> trust_level,
                 authors |-> Get(manifest, "authors", <<>>),
                 added_at |-> now,
                 updated_at |-> now]
        synced == _sync_optional_fields(base, manifest, OPTIONAL_FIELDS)
    IN IF ~IsDefaultRefs(refs_list) THEN SetField(synced, "refs", refs_list) ELSE synced

\* a trust level check that accepts every value
ValidTrustLevel_Any(trust_level) == TRUE

\* trust_level in REGISTRY_TRUST_LEVELS
ValidTrustLevel(trust_level) ==
    \E i \in 1..Len(REGISTRY_TRUST_LEVELS) : REGISTRY_TRUST_LEVELS[i] = trust_level

Fail(d, status, detail, ref) == [status |-> status, detail |-> detail, data |-> d, ref |-> ref]

\* add_plugin(registry, git_url, trust_level, categories, refs); fetched is
\* what the HTTP request returns: None for a failure, else the manifest
add_plugin(d, git_url, trust_level, categories, refs, fetched, now) ==
    IF ~ValidTrustLevel(trust_level)
    THEN Fail(d, "InvalidTrustLevel", "", None)
    ELSE LET refs_list == RefsList(refs)
             ref == Some(refs_list[1].name)
         IN IF ~SupportedHost(git_url) THEN Fail(d, "FetchError", "host", ref)
            ELSE IF fetched = None THEN Fail(d, "FetchError", "http", ref)
            ELSE IF validate_manifest(fetched[1]) THEN Fail(d, "ValidationFailed", "", ref)
            ELSE LET derived == derive_plugin_id(git_url) IN
                 IF derived = None THEN Fail(d, "InvalidIdentifier", "", ref)
            ELSE IF ~Has(d, "plugins") THEN Fail(d, "KeyError", "plugins", ref)
            ELSE LET manifest == fetched[1]
                     plugin_id == derived[1]
                     dup == DuplicateCheck(d.plugins, git_url, manifest.uuid)
                 IN IF dup # "none" THEN Fail(d, "DuplicateEntry", dup, ref)
                    ELSE IF find_plugin(d.plugins, plugin_id) # 0 THEN Fail(d, "DuplicateEntry", "id", ref)
                    ELSE [status |-> "ok", detail |-> "",
                          data |-> [d EXCEPT !.plugins = Append(d.plugins, BuildPlugin(plugin_id, git_url, trust_level, categories, refs_list, manifest, now))],
                          ref |-> ref]

\* an update that also stamps added_at
UpdateFields_StampAdded(plugin, manifest, now) ==
    LET updated == [plugin EXCEPT !.name = manifest.name,
                                  !.description = manifest.description,
                                  !.authors = Get(manifest, "authors", <<>>),
                                  !.added_at = now,
                                  !.updated_at = now]
    IN _sync_optional_fields(updated, manifest, OPTIONAL_FIELDS)

\* the fields update_plugin overwrites from the manifest
UpdateFields(plugin, manifest, now) ==
    LET updated == [plugin EXCEPT !.name = manifest.name,
                                  !.description = manifest.description,
                                  !.authors = Get(manifest, "authors", <<>>),
                                  !.updated_at = now]
    IN _sync_optional_fields(updated, manifest, OPTIONAL_FIELDS)

\* a uuid check that accepts every manifest
UuidChanged_Never(manifest, plugin) == FALSE

\* the check that the uuid has not changed
UuidChanged(manifest, plugin) == manifest.uuid # plugin.uuid

\* a default that ignores the stored refs
UpdateRef_AlwaysMain(refs, ref) == IF ref = None THEN Some(DEFAULT_REF) ELSE ref

\* the ref update_plugin fetches from: the one given, else the first of refs
UpdateRef(refs, ref) == IF ref = None THEN Some(refs[1].name) ELSE ref

\* update_plugin(registry, plugin_id, ref)
update_plugin(d, plugin_id, ref, fetched, now) ==
    IF ~Has(d, "plugins") THEN Fail(d, "KeyError", "plugins", None)
    ELSE IF find_plugin(d.plugins, plugin_id) = 0 THEN Fail(d, "NotFound", "plugin", None)
    ELSE LET i == find_plugin(d.plugins, plugin_id)
             plugin == d.plugins[i]
             refs == Get(plugin, "refs", << [name |-> DEFAULT_REF] >>)
         IN IF ref = None /\ Len(refs) = 0 THEN Fail(d, "IndexError", "refs", None)
            ELSE LET from == UpdateRef(refs, ref)
                 IN IF ~SupportedHost(plugin.git_url) THEN Fail(d, "FetchError", "host", from)
                    ELSE IF fetched = None THEN Fail(d, "FetchError", "http", from)
                    ELSE IF validate_manifest(fetched[1]) THEN Fail(d, "ValidationFailed", "", from)
                    ELSE IF UuidChanged(fetched[1], plugin) THEN Fail(d, "UuidMismatch", "", from)
                    ELSE [status |-> "ok", detail |-> "",
                          data |-> [d EXCEPT !.plugins[i] = UpdateFields(plugin, fetched[1], now)],
                          ref |-> from]

\* ---------------------------------------------------------------------
\* cli: the change each command makes to the plugin entry it found.
\* The result is optional: None when the command exits with an error.
\* ---------------------------------------------------------------------
\* truth value of an optional command-line argument (None and the empty
\* text are false); Given for a text kept as characters, GivenStr for a word
Given(arg) == arg # None /\ Len(arg[1]) > 0

GivenStr(arg) == arg # None /\ arg[1] # ""

\* list.remove(x): the first occurrence is removed
RECURSIVE ListRemove(_, _)
ListRemove(list, x) ==
    IF Len(list) = 0 THEN <<>>
    ELSE IF Head(list) = x THEN Tail(list)
    ELSE <<Head(list)>> \o ListRemove(Tail(list), x)

InList(list, x) == \E i \in 1..Len(list) : list[i] = x

\* cmd_plugin_redirect, --remove
RedirectRemove(plugin, old_url, now) ==
    IF Has(plugin, "redirect_from") /\ InList(plugin.redirect_from, old_url)
    THEN LET rest == ListRemove(plugin.redirect_from, old_url)
             removed == IF Len(rest) = 0 THEN DelField(plugin, "redirect_from") ELSE SetField(plugin, "redirect_from", rest)
         IN Some(SetField(removed, "updated_at", now))
    ELSE None

\* a redirect add that appends without looking for the URL
RedirectAdd_Always(plugin, old_url, now) ==
    Some(SetField(SetField(plugin, "redirect_from", Append(Get(plugin, "redirect_from", <<>>), old_url)), "updated_at", now))

\* cmd_plugin_redirect, adding a redirect
RedirectAdd(plugin, old_url, now) ==
    LET redirects == Get(plugin, "redirect_from", <<>>)
        added == IF ~InList(redirects, old_url) THEN Append(redirects, old_url) ELSE redirects
    IN Some(SetField(SetField(plugin, "redirect_from", added), "updated_at", now))

HasRefNamed(refs, name) == \E i \in 1..Len(refs) : refs[i].name = name

\* a ref entry built without the upper bound
NewRef_NoMax(ref_name, description, min_api_version, max_api_version) ==
    LET r0 == [name |-> ref_name]
        r1 == IF GivenStr(description) THEN SetField(r0, "description", description[1]) ELSE r0
    IN IF Given(min_api_version) THEN SetField(r1, "min_api_version", min_api_version[1]) ELSE r1

\* the ref entry cmd_plugin_ref_add builds
NewRef(ref_name, description, min_api_version, max_api_version) ==
    LET r0 == [name |-> ref_name]
        r1 == IF GivenStr(description) THEN SetField(r0, "description", description[1]) ELSE r0
        r2 == IF Given(min_api_version) THEN SetField(r1, "min_api_version", min_api_version[1]) ELSE r1
    IN IF Given(max_api_version) THEN SetField(r2, "max_api_version", max_api_version[1]) ELSE r2

\* a ref add without the check for an existing name
RefAdd_NoCheck(plugin, ref_name, description, min_api_version, max_api_version, now) ==
    LET refs == Get(plugin, "refs", <<>>) IN
    Some(SetField(SetField(plugin, "refs", Append(refs, NewRef(ref_name, description, min_api_version, max_api_version))), "updated_at", now))

\* cmd_plugin_ref_add
RefAdd(plugin, ref_name, description, min_api_version, max_api_version, now) ==
    LET refs == Get(plugin, "refs", <<>>) IN
    IF HasRefNamed(refs, ref_name) THEN None
    ELSE Some(SetField(SetField(plugin, "refs", Append(refs, NewRef(ref_name, description, min_api_version, max_api_version))), "updated_at", now))

\* the first ref with the name, 0 when there is none
FindRef(refs, name) ==
    IF HasRefNamed(refs, name)
    THEN CHOOSE i \in 1..Len(refs) : refs[i].name = name /\ \A j \in 1..(i - 1) : refs[j].name # name
    ELSE 0

\* the field updates of cmd_plugin_ref_edit on the ref it found
EditRef(ref, new_name, description, min_api_version, max_api_version) ==
    LET r0 == IF Given(new_name) /\ new_name[1] # ref.name THEN SetField(ref, "name", new_name[1]) ELSE ref
        r1 == IF description # None
              THEN (IF GivenStr(description) THEN SetField(r0, "description", description[1])
                    ELSE IF Has(r0, "description") THEN DelField(r0, "description") ELSE r0)
              ELSE r0
        r2 == IF Given(min_api_version) THEN SetField(r1, "min_api_version", min_api_version[1]) ELSE r1
    IN IF Given(max_api_version) THEN SetField(r2, "max_api_version", max_api_version[1]) ELSE r2

\* a ref edit that renames without looking at the other names
RefEdit_NoCollisionCheck(plugin, ref_name, new_name, description, min_api_version, max_api_version, now) ==
    LET refs == Get(plugin, "refs", <<>>)
        i == FindRef(refs, ref_name)
    IN IF i = 0 THEN None
       ELSE Some(SetField(SetField(plugin, "refs", [refs EXCEPT ![i] = EditRef(refs[i], new_name, description, min_api_version, max_api_version)]), "updated_at", now))

\* a ref edit that leaves updated_at alone
RefEdit_NoBump(plugin, ref_name, new_name, description, min_api_version, max_api_version, now) ==
    LET refs == Get(plugin, "refs", <<>>)
        i == FindRef(refs, ref_name)
    IN IF i = 0 THEN None
       ELSE IF Given(new_name) /\ new_name[1] # ref_name /\ HasRefNamed(refs, new_name[1]) THEN None
       ELSE Some(SetField(plugin, "refs", [refs EXCEPT ![i] = EditRef(refs[i], new_name, description, min_api_version, max_api_version)]))

\* cmd_plugin_ref_edit
RefEdit(plugin, ref_name, new_name, description, min_api_version, max_api_version, now) ==
    LET refs == Get(plugin, "refs", <<>>)
        i == FindRef(refs, ref_name)
    IN IF i = 0 THEN None
       ELSE IF Given(new_name) /\ new_name[1] # ref_name /\ HasRefNamed(refs, new_name[1]) THEN None
       ELSE Some(SetField(SetField(plugin, "refs", [refs EXCEPT ![i] = EditRef(refs[i], new_name, description, min_api_version, max_api_version)]), "updated_at", now))

\* a filter that drops only the first ref with the name
RECURSIVE RefsWithout_FirstOnly(_, _)
RefsWithout_FirstOnly(refs, name) ==
    IF Len(refs) = 0 THEN <<>>
    ELSE IF Head(refs).name # name THEN <<Head(refs)>> \o RefsWithout_FirstOnly(Tail(refs), name)
    ELSE Tail(refs)

RECURSIVE RefsWithout(_, _)
RefsWithout(refs, name) ==
    IF Len(refs) = 0 THEN <<>>
    ELSE (IF Head(refs).name # name THEN <<Head(refs)>> ELSE <<>>) \o RefsWithout(Tail(refs), name)

\* a ref remove that keeps the refs key when the list becomes empty
RefRemove_KeepEmpty(plugin, ref_name, now) ==
    IF ~Has(plugin, "refs") THEN None
    ELSE LET rest == RefsWithout(plugin.refs, ref_name) IN
         IF Len(rest) = Len(plugin.refs) THEN None
         ELSE Some(SetField(SetField(plugin, "refs", rest), "updated_at", now))

\* cmd_plugin_ref_remove
RefRemove(plugin, ref_name, now) ==
    IF ~Has(plugin, "refs") THEN None
    ELSE LET rest == RefsWithout(plugin.refs, ref_name) IN
         IF Len(rest) = Len(plugin.refs) THEN None
         ELSE Some(SetField(IF Len(rest) = 0 THEN DelField(plugin, "refs") ELSE SetField(plugin, "refs", rest), "updated_at", now))

\* cmd_plugin_edit
EditPlugin(plugin, trust, categories, git_url, versioning_scheme, now) ==
    LET p1 == IF GivenStr(trust) THEN SetField(plugin, "trust_level", trust[1]) ELSE plugin
        p2 == IF Given(categories) THEN SetField(p1, "categories", Split(categories[1], ",")) ELSE p1
        p3 == IF Given(git_url) THEN SetField(p2, "git_url", git_url[1]) ELSE p2
        p4 == IF versioning_scheme # None
              THEN (IF GivenStr(versioning_scheme) THEN SetField(p3, "versioning_scheme", versioning_scheme[1])
                    ELSE IF Has(p3, "versioning_scheme") THEN DelField(p3, "versioning_scheme") ELSE p3)
              ELSE p3
    IN Some(SetField(p4, "updated_at", now))

\* ---------------------------------------------------------------------
\* cli: a command loads the file, changes one entry and saves, or exits
\* with an error before the save. The outcome names the file afterwards.
\* ---------------------------------------------------------------------
CliFail(f, status, detail) == [status |-> status, detail |-> detail, file |-> f]

\* the entry get_plugin_or_exit returns for a plugin id that exists
FoundPlugin(f, plugin_id) == _load(f).plugins[find_plugin(_load(f).plugins, plugin_id)]

\* get_plugin_or_exit, then the change of the entry (None for an error
\* exit), then registry.save()
OnPlugin(f, plugin_id, changed, errDetail) ==
    LET reg == _load(f) IN
    IF ~Has(reg, "plugins") THEN CliFail(f, "KeyError", "plugins")
    ELSE IF find_plugin(reg.plugins, plugin_id) = 0 THEN CliFail(f, "NotFound", "plugin")
    ELSE IF changed = None THEN CliFail(f, "Error", errDetail)
    ELSE [status |-> "ok", detail |-> "",
          file |-> save([reg EXCEPT !.plugins[find_plugin(reg.plugins, plugin_id)] = changed[1]]).file]

\* keys of an entry that tomli_w writes as tables, after the entry's
\* literal keys
TABLE_KEYS == {"refs", "name_i18n", "description_i18n"}

\* literal keys a later command can have added to an entry after
\* redirect_from
LATE_KEYS == {"versioning_scheme", "maintainers"}

DropKeys(plugin, keys) == [key \in DOMAIN plugin \ keys |-> plugin[key]]

\* Registry.save when redirect_from of the entry holds None: the plugins are
\* sorted, the file is opened for writing (and so emptied) and tomli_w.dump
\* writes key by key until it raises TypeError at redirect_from. The file
\* is left with api_version, the entries sorted before this one and the
\* literal keys of this entry written before redirect_from; late tells
\* whether the keys of LATE_KEYS come after redirect_from in the entry.
FailedDump(d, plugin_id, late) ==
    LET sorted == SortById(d.plugins)
        i == find_plugin(sorted, plugin_id)
        lost == {"redirect_from"} \cup TABLE_KEYS \cup (IF late /\ Has(sorted[i], "redirect_from") THEN LATE_KEYS ELSE {})
    IN [api_version |-> d.api_version, plugins |-> Append(SubSeq(sorted, 1, i - 1), DropKeys(sorted[i], lost))]

\* cmd_plugin_redirect; old_url is optional on the command line
cmd_plugin_redirect(f, plugin_id, old_url, mode, late, now) ==
    IF mode = "remove"
    THEN OnPlugin(f, plugin_id,
                  IF old_url = None THEN None ELSE RedirectRemove(FoundPlugin(f, plugin_id), old_url[1], now),
                  "redirect not found")
    ELSE IF old_url # None THEN OnPlugin(f, plugin_id, RedirectAdd(FoundPlugin(f, plugin_id), old_url[1], now), "")
    ELSE LET reg == _load(f) IN
         IF ~Has(reg, "plugins") THEN CliFail(f, "KeyError", "plugins")
         ELSE IF find_plugin(reg.plugins, plugin_id) = 0 THEN CliFail(f, "NotFound", "plugin")
         ELSE [status |-> "TypeError", detail |-> "redirect_from", file |-> Some(FailedDump(reg, plugin_id, late))]

cmd_plugin_ref_add(f, plugin_id, ref_name, description, min_api_version, max_api_version, now) ==
    OnPlugin(f, plugin_id, RefAdd(FoundPlugin(f, plugin_id), ref_name, description, min_api_version, max_api_version, now), "ref exists")

cmd_plugin_ref_edit(f, plugin_id, ref_name, new_name, description, min_api_version, max_api_version, now) ==
    OnPlugin(f, plugin_id, RefEdit(FoundPlugin(f, plugin_id), ref_name, new_name, description, min_api_version, max_api_version, now), "ref not found or exists")

cmd_plugin_ref_remove(f, plugin_id, ref_name, now) ==
    OnPlugin(f, plugin_id, RefRemove(FoundPlugin(f, plugin_id), ref_name, now), "ref not found")

cmd_plugin_edit(f, plugin_id, trust, categories, git_url, versioning_scheme, now) ==
    OnPlugin(f, plugin_id, EditPlugin(FoundPlugin(f, plugin_id), trust, categories, git_url, versioning_scheme, now), "")

\* cmd_plugin_update: update_plugin on the loaded registry, then save
cmd_plugin_update(f, plugin_id, ref, fetched, now) ==
    LET out == update_plugin(_load(f), plugin_id, ref, fetched, now) IN
    IF out.status # "ok" THEN CliFail(f, out.status, out.detail)
    ELSE [status |-> "ok", detail |-> "", file |-> save(out.data).file]

\* cmd_plugin_remove: remove_plugin on the loaded registry, then save
cmd_plugin_remove(f, plugin_id) ==
    LET reg == _load(f) IN
    IF ~Has(reg, "plugins") THEN CliFail(f, "KeyError", "plugins")
    ELSE [status |-> "ok", detail |-> "", file |-> save([reg EXCEPT !.plugins = remove_plugin(reg.plugins, plugin_id)]).file]

\* cmd_plugin_add: add_plugin of plugin.py takes no versioning_scheme
\* keyword, so the call raises TypeError before anything is done
cmd_plugin_add(f, url, trust, categories, refs, versioning_scheme) == CliFail(f, "TypeError", "versioning_scheme")

\* ---------------------------------------------------------------------
\* blacklist.add_blacklist, Registry.add_blacklist, Registry.remove_blacklist
\* ---------------------------------------------------------------------
\* the entry add_blacklist builds
BlacklistEntry(url, uuid, url_regex, reason, now) ==
    LET e0 == [reason |-> reason[1], blacklisted_at |-> now]
        e1 == IF Given(uuid) THEN SetField(e0, "uuid", uuid[1]) ELSE e0
        e2 == IF Given(url) THEN SetField(e1, "url", url[1]) ELSE e1
    IN IF Given(url_regex) THEN SetField(e2, "url_regex", url_regex[1]) ELSE e2

\* an add_blacklist that does not ask for a reason
add_blacklist_NoReasonCheck(d, url, uuid, url_regex, reason, now) ==
    IF ~(Given(url) \/ Given(uuid) \/ Given(url_regex)) THEN Fail(d, "InvalidArgument", "identifier", None)
    ELSE [status |-> "ok", detail |-> "",
          data |-> [d EXCEPT !.blacklist = Append(d.blacklist, BlacklistEntry(url, uuid, url_regex, IF reason = None THEN Some("") ELSE reason, now))],
          ref |-> None]

\* an add_blacklist that empties the plugin list
add_blacklist_ClearsPlugins(d, url, uuid, url_regex, reason, now) ==
    IF ~GivenStr(reason) THEN Fail(d, "InvalidArgument", "reason", None)
    ELSE IF ~(Given(url) \/ Given(uuid) \/ Given(url_regex)) THEN Fail(d, "InvalidArgument", "identifier", None)
    ELSE [status |-> "ok", detail |-> "",
          data |-> [d EXCEPT !.plugins = <<>>, !.blacklist = Append(d.blacklist, BlacklistEntry(url, uuid, url_regex, reason, now))],
          ref |-> None]

\* add_blacklist(registry, url, uuid, url_regex, reason)
add_blacklist(d, url, uuid, url_regex, reason, now) ==
    IF ~GivenStr(reason) THEN Fail(d, "InvalidArgument", "reason", None)
    ELSE IF ~(Given(url) \/ Given(uuid) \/ Given(url_regex)) THEN Fail(d, "InvalidArgument", "identifier", None)
    ELSE [status |-> "ok", detail |-> "",
          data |-> [d EXCEPT !.blacklist = Append(d.blacklist, BlacklistEntry(url, uuid, url_regex, reason, now))],
          ref |-> None]

\* cmd_blacklist_add: add_blacklist on the loaded registry, then save
cmd_blacklist_add(f, url, uuid, url_regex, reason, now) ==
    LET out == add_blacklist(_load(f), url, uuid, url_regex, reason, now) IN
    IF out.status # "ok" THEN CliFail(f, out.status, out.detail)
    ELSE IF save(out.data).status # "ok" THEN CliFail(f, save(out.data).status, "plugins")
    ELSE [status |-> "ok", detail |-> "", file |-> save(out.data).file]

\* e.get(key) as an optional value
GetOpt(e, key) == IF Has(e, key) THEN Some(e[key]) ELSE None

\* a match that compares e.get(key) with the argument even when the
\* argument was not supplied
BlacklistMatch_Unguarded(e, url, uuid) ==
    \/ GetOpt(e, "url") = url
    \/ GetOpt(e, "uuid") = uuid

\* (url and e.get("url") == url) or (uuid and e.get("uuid") == uuid)
BlacklistMatch(e, url, uuid) ==
    \/ Given(url) /\ GetOpt(e, "url") = url
    \/ Given(uuid) /\ GetOpt(e, "uuid") = uuid

\* Registry.remove_blacklist: the list comprehension
RECURSIVE remove_blacklist(_, _, _)
remove_blacklist(blacklist, url, uuid) ==
    IF Len(blacklist) = 0 THEN <<>>
    ELSE (IF ~BlacklistMatch(Head(blacklist), url, uuid) THEN <<Head(blacklist)>> ELSE <<>>)
         \o remove_blacklist(Tail(blacklist), url, uuid)

\* cmd_blacklist_remove: remove_blacklist on the loaded registry, then save
cmd_blacklist_remove(f, url, uuid) ==
    LET reg == _load(f)
        out == save([reg EXCEPT !.blacklist = remove_blacklist(reg.blacklist, url, uuid)])
    IN IF out.status # "ok" THEN CliFail(f, out.status, "plugins")
       ELSE [status |-> "ok", detail |-> "", file |-> out.file]

\* ---------------------------------------------------------------------
\* Inputs of the model
\* ---------------------------------------------------------------------
UrlA == <<"g","i","t","h","u","b",".","c","o","m","/","u","/","a">>
UrlA2 == <<"g","i","t","h","u","b",".","c","o","m","/","u","/","a",".","g","i","t">>
UrlB == <<"g","i","t","l","a","b",".","c","o","m","/","u","/","p","l","u","g","i","n","-","b">>
UrlNoId == <<"g","i","t","h","u","b",".","c","o","m","/","u","/","_">>
UrlHost == <<"x",".","o","r","g","/","u","/","c">>
UrlOld == <<"g","i","t","h","u","b",".","c","o","m","/","o","/","a">>

IdA == <<"a">>
IdB == <<"b">>
IdNone == <<"z","z">>

UuidA == <<"1","2","3","4","5","6","7","8","-","1","2","3","4","-","4","2","3","4","-","8","2","3","4","-","1","2","3","4","5","6","7","8","9","a","b","c">>
UuidB == <<"8","7","6","5","4","3","2","1","-","4","3","2","1","-","4","3","2","1","-","8","3","2","1","-","c","b","a","9","8","7","6","5","4","3","2","1">>
UuidBad == <<"n","o","t","-","a","-","u","u","i","d">>

RefDev == <<"d","e","v">>
RefsDevMain == <<"d","e","v",":","1","-","2",","," ","m","a","i","n">>
RefsTwice == <<"a",",",",","a">>
V3 == <<"3">>

ManifestA1 ==
    [uuid |-> UuidA, name |-> "n1", version |-> "1.0.0", description |-> "d1", api |-> <<"3.0">>,
     authors |-> <<"au">>, maintainers |-> <<"mt">>, name_i18n |-> "n1-de", categories |-> <<CAT_UI>>]

ManifestA2 ==
    [uuid |-> UuidA, name |-> "n2", version |-> "2.0.0", description |-> "d2", api |-> <<"3.0">>,
     description_i18n |-> "d2-de"]

ManifestB ==
    [uuid |-> UuidB, name |-> "n1", version |-> "1.0.0", description |-> "d1", api |-> <<"3.0">>]

ManifestInvalid ==
    [uuid |-> UuidBad, version |-> "1.0.0", description |-> "d1", api |-> <<"3.0">>]

CAT_BAD == <<"x">>
CAT_BAD2 == <<"y">>

\* "a", "*a*", "<b>a</b>"
LongDescriptions == {<<"a">>, <<"*","a","*">>, <<"<","b",">","a","<","/","b",">">>}

CategoryLists == {<<CAT_UI>>, <<CAT_BAD>>, <<CAT_BAD, CAT_UI, CAT_BAD2>>}

ManifestValue(key, uuid, categories, long_description) ==
    CASE key = "uuid" -> uuid
      [] key = "name" -> "n1"
      [] key = "version" -> "1.0.0"
      [] key = "description" -> "d1"
      [] key = "api" -> <<"3.0">>
      [] key = "categories" -> categories
      [] key = "long_description" -> long_description

MANIFEST_KEYS == {"uuid", "name", "version", "description", "api", "categories", "long_description"}

\* the manifests given to the validator: any subset of the keys, a
\* well-formed or malformed uuid, valid and invalid categories, plain and
\* HTML long descriptions
Manifests ==
    {[key \in keys |-> ManifestValue(key, uuid, categories, long_description)] :
        keys \in SUBSET MANIFEST_KEYS, uuid \in {UuidA, UuidBad},
        categories \in CategoryLists, long_description \in LongDescriptions}

\* what the HTTP request of fetch_manifest can return
Fetched == {None, Some(ManifestA1), Some(ManifestA2), Some(ManifestB), Some(ManifestInvalid)}

\* calls of add_plugin
AddCalls ==
    {[git_url |-> UrlA, trust_level |-> "community", categories |-> None, refs |-> None],
     [git_url |-> UrlA2, trust_level |-> "official", categories |-> Some(<<CAT_METADATA>>), refs |-> Some(RefDev)],
     [git_url |-> UrlB, trust_level |-> "community", categories |-> None, refs |-> Some(RefsDevMain)],
     [git_url |-> UrlB, trust_level |-> "community", categories |-> None, refs |-> Some(RefsTwice)],
     [git_url |-> UrlA, trust_level |-> "bogus", categories |-> None, refs |-> None],
     [git_url |-> UrlNoId, trust_level |-> "community", categories |-> None, refs |-> None],
     [git_url |-> UrlHost, trust_level |-> "community", categories |-> None, refs |-> None]}

PluginIds == {IdA, IdB, IdNone}

CallA == [git_url |-> UrlA, trust_level |-> "community", categories |-> None, refs |-> None]
CallA2 == [git_url |-> UrlA2, trust_level |-> "official", categories |-> Some(<<CAT_METADATA>>), refs |-> Some(RefDev)]
CallB == [git_url |-> UrlB, trust_level |-> "community", categories |-> None, refs |-> Some(RefsDevMain)]

\* the add_plugin calls made: the arguments and what the HTTP request for
\* the manifest returns
AddInputs ==
    {[call |-> CallA, fetched |-> Some(ManifestA1)],
     [call |-> CallA, fetched |-> Some(ManifestA2)],
     [call |-> CallA, fetched |-> Some(ManifestB)],
     [call |-> CallA, fetched |-> Some(ManifestInvalid)],
     [call |-> CallA, fetched |-> None],
     [call |-> CallA2, fetched |-> Some(ManifestA1)],
     [call |-> CallA2, fetched |-> Some(ManifestB)],
     [call |-> CallB, fetched |-> Some(ManifestB)],
     [call |-> CallB, fetched |-> Some(ManifestA1)]}
    \cup {[call |-> c, fetched |-> Some(ManifestB)] : c \in AddCalls \ {CallA, CallA2, CallB}}

\* refs arguments of add_plugin: none, "", "main", " main ", "main:1",
\* "main:", "dev", "dev:1-2, main", "main,dev"
AddRefs ==
    {None, Some(<<>>), Some(DEFAULT_REF), Some(<<" ">> \o DEFAULT_REF \o <<" ">>),
     Some(DEFAULT_REF \o <<":","1">>), Some(DEFAULT_REF \o <<":">>),
     Some(RefDev), Some(RefsDevMain), Some(DEFAULT_REF \o <<",">> \o RefDev)}

\* ref arguments of update_plugin: none, "dev", ""
UpdateRefs == {None, Some(RefDev), Some(<<>>)}

UrlOld2 == <<"g","i","t","h","u","b",".","c","o","m","/","o","/","b">>

\* the old_url argument of "plugin redirect": a URL, or left out
OldUrls == {Some(UrlOld), None}

\* values that are not trust levels of the registry
BadTrustLevels == {"bogus", "", "Official"}

\* the update_plugin calls made
UpdateInputs ==
    {[plugin_id |-> IdA, ref |-> None, fetched |-> f] : f \in Fetched}
    \cup {[plugin_id |-> IdA, ref |-> Some(RefDev), fetched |-> Some(ManifestA2)],
          [plugin_id |-> IdB, ref |-> None, fetched |-> Some(ManifestB)],
          [plugin_id |-> IdB, ref |-> Some(RefDev), fetched |-> Some(ManifestA1)],
          [plugin_id |-> IdNone, ref |-> None, fetched |-> Some(ManifestA1)]}

\* arguments of "plugin edit"
EditCalls ==
    {[trust |-> Some("trusted"), categories |-> Some(<<"u","i",",","o","t","h","e","r">>), git_url |-> None, versioning_scheme |-> Some("semver")],
     [trust |-> None, categories |-> None, git_url |-> Some(UrlA), versioning_scheme |-> Some("")],
     [trust |-> None, categories |-> None, git_url |-> None, versioning_scheme |-> None]}

RefNames == {DEFAULT_REF, RefDev, <<>>}

\* "dev,main,dev:3": two of the three refs have one name
RefsDup == <<"d","e","v",",","m","a","i","n",",","d","e","v",":","3">>

\* description and version bounds of "ref add" and "ref edit"
RefDetails ==
    {[description |-> None, min_api_version |-> None, max_api_version |-> None],
     [description |-> Some("x"), min_api_version |-> Some(V3), max_api_version |-> Some(V3)]}

\* arguments of "ref edit" besides the ref name
RefEdits ==
    {[new_name |-> None, description |-> Some(""), min_api_version |-> Some(V3), max_api_version |-> None],
     [new_name |-> Some(DEFAULT_REF), description |-> None, min_api_version |-> None, max_api_version |-> None],
     [new_name |-> Some(RefDev), description |-> Some("x"), min_api_version |-> None, max_api_version |-> Some(V3)]}

RefPlain == [description |-> None, min_api_version |-> None, max_api_version |-> None]

RefFull == [description |-> Some("x"), min_api_version |-> Some(V3), max_api_version |-> Some(V3)]

\* the "ref add" commands run
RefAddInputs ==
    {[plugin_id |-> p, ref_name |-> n, details |-> RefPlain] : p \in {IdA, IdB}, n \in RefNames}
    \cup {[plugin_id |-> IdA, ref_name |-> DEFAULT_REF, details |-> RefFull],
          [plugin_id |-> IdB, ref_name |-> <<>>, details |-> RefFull],
          [plugin_id |-> IdNone, ref_name |-> RefDev, details |-> RefPlain]}

EditBounds == [new_name |-> None, description |-> Some(""), min_api_version |-> Some(V3), max_api_version |-> None]

RenameMain == [new_name |-> Some(DEFAULT_REF), description |-> None, min_api_version |-> None, max_api_version |-> None]

RenameDev == [new_name |-> Some(RefDev), description |-> Some("x"), min_api_version |-> None, max_api_version |-> Some(V3)]

\* the "ref edit" commands run
RefEditInputs ==
    {[plugin_id |-> p, ref_name |-> RefDev, edit |-> e] : p \in {IdA, IdB}, e \in RefEdits}
    \cup {[plugin_id |-> IdA, ref_name |-> DEFAULT_REF, edit |-> EditBounds],
          [plugin_id |-> IdB, ref_name |-> DEFAULT_REF, edit |-> RenameDev],
          [plugin_id |-> IdB, ref_name |-> DEFAULT_REF, edit |-> EditBounds],
          [plugin_id |-> IdB, ref_name |-> <<>>, edit |-> RenameMain],
          [plugin_id |-> IdNone, ref_name |-> RefDev, edit |-> EditBounds]}

UrlRegex == <<".","*","/","u","/",".","*">>

\* the add_blacklist calls made
BlacklistCalls ==
    {[url |-> Some(UrlA), uuid |-> None, url_regex |-> None, reason |-> Some("r")],
     [url |-> None, uuid |-> Some(UuidB), url_regex |-> None, reason |-> Some("r")],
     [url |-> Some(UrlB), uuid |-> Some(UuidB), url_regex |-> Some(UrlRegex), reason |-> Some("s")],
     [url |-> None, uuid |-> None, url_regex |-> None, reason |-> Some("r")],
     [url |-> Some(<<>>), uuid |-> None, url_regex |-> None, reason |-> Some("r")],
     [url |-> Some(UrlA), uuid |-> None, url_regex |-> None, reason |-> None],
     [url |-> Some(UrlA), uuid |-> None, url_regex |-> None, reason |-> Some("")],
     [url |-> None, uuid |-> None, url_regex |-> None, reason |-> None]}

\* the remove_blacklist calls made
BlacklistRemovals ==
    {[url |-> Some(UrlA), uuid |-> None],
     [url |-> None, uuid |-> Some(UuidB)],
     [url |-> Some(UrlA), uuid |-> Some(UuidB)],
     [url |-> None, uuid |-> None]}

\* the characters refs specifications are built from
RefChars == {"a", ",", ":", "-", " "}

\* "main:4.0,picard-v3:3.0-3.99"
RefsExample == <<"m","a","i","n",":","4",".","0",",","p","i","c","a","r","d","-","v","3",":","3",".","0","-","3",".","9","9">>

\* " p-v : 3 - 4-5 ,m"
RefsSpaced == <<" ","p","-","v"," ",":"," ","3"," ","-"," ","4","-","5"," ",",","m">>

\* the refs specifications given to _parse_refs
RefSpecs ==
    UNION {[1..n -> RefChars] : n \in 0..MaxRefLen} \cup {RefsExample, RefsSpaced, RefsDevMain, RefsTwice, RefsDup}

\* the pieces repository URLs are built from
UrlTokens ==
    {<<"p","i","c","a","r","d","-","p","l","u","g","i","n","-">>, <<"P","i","c","a","r","d","-">>, <<"p","l","u","g","i","n","-">>,
     <<"x","1">>, <<"M","y","_","_","P">>, <<"_">>, <<"-">>, GitSuffix, <<"/">>}

RECURSIVE Concat(_)
Concat(pieces) == IF Len(pieces) = 0 THEN <<>> ELSE Head(pieces) \o Concat(Tail(pieces))

\* "not-a-url", "h.org", "https://h.org", "https://h.org/", "https://h.org/u/x1"
UrlExamples ==
    {<<"n","o","t","-","a","-","u","r","l">>,
     <<"h",".","o","r","g">>,
     <<"h","t","t","p","s",":","/","/","h",".","o","r","g">>,
     <<"h","t","t","p","s",":","/","/","h",".","o","r","g","/">>,
     <<"h","t","t","p","s",":","/","/","h",".","o","r","g","/","u","/","x","1">>}

\* the URLs given to derive_plugin_id: nothing or "h/", then tokens
DeriveUrls ==
    {base \o Concat(pieces) : base \in {<<>>, <<"h","/">>}, pieces \in UNION {[1..n -> UrlTokens] : n \in 0..MaxTokens}}
    \cup UrlExamples

\* ---------------------------------------------------------------------
\* State
\* ---------------------------------------------------------------------
\* data: the data of the Registry object a library caller holds
\* file: the registry file, <<>> while it does not exist, else <<document>>
\* clock: the next reading of the clock (now_iso8601)
\* result: the last operation, its outcome and its arguments
VARIABLES data, file, clock, result

vars == <<data, file, clock, result>>

\* now_iso8601: a strictly increasing clock, read as ticks
now_iso8601 == clock

Outcome(op, status, detail, args) == [op |-> op, status |-> status, detail |-> detail, args |-> args]

\* the registries a library caller has built before with two add_plugin
\* calls at the times 1 and 2
InitRegistries ==
    {add_plugin(add_plugin(_load(<<>>), first.git_url, first.trust_level, first.categories, first.refs, Some(ManifestA1), 1).data,
                second.git_url, second.trust_level, second.categories, second.refs, Some(ManifestB), 2).data :
        first \in {c \in AddCalls : c.trust_level # "bogus" /\ c.git_url \in {UrlA, UrlA2}},
        second \in {c \in AddCalls : c.refs = Some(RefsDevMain) \/ c.git_url = UrlNoId}}

\* the registry file when a Registry object is constructed: it does not
\* exist yet, or it was saved from such a registry
InitFiles == {<<>>} \cup {save(reg).file : reg \in {r \in InitRegistries : Len(r.plugins) # 1 \/ Has(r.plugins[1], "refs")}}

\* Registry.__init__ loads the file
Init ==
    /\ file \in InitFiles
    /\ data = _load(file)
    /\ clock = 3
    /\ result = Outcome("init", "ok", "", <<>>)

\* the clock advances when an operation has read it; an operation that
\* reads the clock is not started once the clock has passed the bound
Tick(status, bound) ==
    /\ status = "ok" => clock <= bound
    /\ clock' = IF status = "ok" THEN clock + 1 ELSE clock

\* --- operations of a library caller on its Registry object -------------
AddPlugin ==
    \E in \in AddInputs :
        LET call == in.call
            fetched == in.fetched
            out == add_plugin(data, call.git_url, call.trust_level, call.categories, call.refs, fetched, now_iso8601) IN
        /\ data' = out.data
        /\ Tick(out.status, MaxTime)
        /\ result' = Outcome("add_plugin", out.status, out.detail,
                             IF out.status = "ok" THEN [call |-> call, fetched |-> fetched]
                             ELSE IF out.status = "DuplicateEntry" THEN [git_url |-> call.git_url, uuid |-> fetched[1].uuid]
                             ELSE <<>>)
        /\ UNCHANGED file

UpdatePlugin ==
    \E in \in UpdateInputs :
        LET plugin_id == in.plugin_id
            fetched == in.fetched
            out == update_plugin(data, plugin_id, in.ref, fetched, now_iso8601) IN
        /\ data' = out.data
        /\ Tick(out.status, MaxTime)
        /\ result' = Outcome("update_plugin", out.status, out.detail,
                             IF out.status = "ok" THEN [plugin_id |-> plugin_id, fetched |-> fetched, ref |-> in.ref, from |-> out.ref]
                             ELSE IF out.status \in {"UuidMismatch", "ValidationFailed"} THEN [plugin_id |-> plugin_id]
                             ELSE <<>>)
        /\ UNCHANGED file

RemovePlugin ==
    /\ \E plugin_id \in PluginIds :
        /\ IF Has(data, "plugins")
           THEN /\ data' = [data EXCEPT !.plugins = remove_plugin(data.plugins, plugin_id)]
                /\ result' = Outcome("remove_plugin", "ok", "", <<>>)
           ELSE /\ data' = data
                /\ result' = Outcome("remove_plugin", "KeyError", "plugins", <<>>)
        /\ UNCHANGED <<file, clock>>

Save ==
    LET out == save(data) IN
    /\ data' = out.data
    /\ file' = IF out.status = "ok" THEN out.file ELSE file
    /\ result' = Outcome("save", out.status, "", <<>>)
    /\ UNCHANGED clock

Load ==
    /\ data' = _load(file)
    /\ result' = Outcome("load", "ok", "", <<>>)
    /\ UNCHANGED <<file, clock>>

AddBlacklist ==
    \E call \in BlacklistCalls :
        LET out == add_blacklist(data, call.url, call.uuid, call.url_regex, call.reason, clock) IN
        /\ data' = out.data
        /\ Tick(out.status, MaxStoreTime)
        /\ result' = Outcome("add_blacklist", out.status, out.detail, IF out.status = "ok" THEN call ELSE <<>>)
        /\ UNCHANGED file

RemoveBlacklist ==
    \E call \in BlacklistRemovals :
        /\ data' = [data EXCEPT !.blacklist = remove_blacklist(data.blacklist, call.url, call.uuid)]
        /\ result' = Outcome("remove_blacklist", "ok", "", call)
        /\ UNCHANGED <<file, clock>>

Next ==
    \/ AddPlugin
    \/ UpdatePlugin
    \/ RemovePlugin

Spec == Init /\ [][Next]_vars

\* --- commands of the CLI: load the file, one operation, save -----------
Command(op, out, args) ==
    /\ file' = out.file
    /\ Tick(out.status, MaxCmdTime)
    /\ result' = Outcome(op, out.status, out.detail, IF out.status \in {"ok", "Error"} THEN args ELSE <<>>)
    /\ UNCHANGED data

CmdPluginAdd ==
    \E call \in AddCalls :
        Command("plugin add", cmd_plugin_add(file, call.git_url, call.trust_level, call.categories, call.refs, None), <<>>)

CmdPluginUpdate ==
    \E in \in UpdateInputs :
        Command("plugin update", cmd_plugin_update(file, in.plugin_id, in.ref, in.fetched, now_iso8601), [plugin_id |-> in.plugin_id])

CmdPluginEdit ==
    \E plugin_id \in PluginIds, call \in EditCalls :
        Command("plugin edit", cmd_plugin_edit(file, plugin_id, call.trust, call.categories, call.git_url, call.versioning_scheme, now_iso8601),
                [plugin_id |-> plugin_id])

CmdPluginRemove ==
    \E plugin_id \in PluginIds :
        LET out == cmd_plugin_remove(file, plugin_id) IN
        /\ file' = out.file
        /\ result' = Outcome("plugin remove", out.status, out.detail, <<>>)
        /\ UNCHANGED <<data, clock>>

CmdPluginRedirect ==
    \E plugin_id \in PluginIds, old_url \in OldUrls, mode \in {"add", "remove"}, late \in BOOLEAN :
        Command("redirect " \o mode, cmd_plugin_redirect(file, plugin_id, old_url, mode, late, now_iso8601),
                [plugin_id |-> plugin_id])

CmdPluginRefAdd ==
    \E in \in RefAddInputs :
        LET plugin_id == in.plugin_id
            ref_name == in.ref_name
            d == in.details
        IN
        Command("ref add", cmd_plugin_ref_add(file, plugin_id, ref_name, d.description, d.min_api_version, d.max_api_version, now_iso8601),
                [plugin_id |-> plugin_id, ref_name |-> ref_name])

CmdPluginRefEdit ==
    \E in \in RefEditInputs :
        LET plugin_id == in.plugin_id
            ref_name == in.ref_name
            e == in.edit
        IN
        Command("ref edit", cmd_plugin_ref_edit(file, plugin_id, ref_name, e.new_name, e.description, e.min_api_version, e.max_api_version, now_iso8601),
                [plugin_id |-> plugin_id, ref_name |-> ref_name, new_name |-> e.new_name])

CmdPluginRefRemove ==
    \E plugin_id \in PluginIds, ref_name \in RefNames :
        Command("ref remove", cmd_plugin_ref_remove(file, plugin_id, ref_name, now_iso8601),
                [plugin_id |-> plugin_id, ref_name |-> ref_name])

NextCli ==
    \/ CmdPluginAdd
    \/ CmdPluginUpdate
    \/ CmdPluginEdit
    \/ CmdPluginRemove
    \/ CmdPluginRedirect
    \/ CmdPluginRefAdd
    \/ CmdPluginRefEdit
    \/ CmdPluginRefRemove

SpecCli == Init /\ [][NextCli]_vars

\* the blacklist operations and save / load on a registry object
CmdBlacklistAdd ==
    \E call \in BlacklistCalls :
        Command("blacklist add", cmd_blacklist_add(file, call.url, call.uuid, call.url_regex, call.reason, now_iso8601), call)

CmdBlacklistRemove ==
    \E call \in BlacklistRemovals :
        LET out == cmd_blacklist_remove(file, call.url, call.uuid) IN
        /\ file' = out.file
        /\ result' = Outcome("blacklist remove", out.status, out.detail, call)
        /\ UNCHANGED <<data, clock>>

NextStore ==
    \/ AddBlacklist
    \/ RemoveBlacklist
    \/ Save
    \/ Load

\* the blacklist operations of the library and of the CLI
NextBlacklist ==
    \/ AddBlacklist
    \/ RemoveBlacklist
    \/ CmdBlacklistAdd
    \/ CmdBlacklistRemove

SpecBlacklist == Init /\ [][NextBlacklist]_vars

SpecStore == Init /\ [][NextStore]_vars

\* the parser and the identifier deriver applied to an input: the input is
\* held in result until the function has been called
InitText ==
    /\ file = <<>>
    /\ data = _load(file)
    /\ clock = 1
    /\ \/ \E refs_str \in RefSpecs : result = Outcome("input", "", "refs", [refs_str |-> refs_str])
       \/ \E git_url \in DeriveUrls : result = Outcome("input", "", "git_url", [git_url |-> git_url])

ParseRefs ==
    /\ result.op = "input"
    /\ result.detail = "refs"
    /\ result' = Outcome("_parse_refs", "ok", "", [refs_str |-> result.args.refs_str, refs |-> _parse_refs(result.args.refs_str)])
    /\ UNCHANGED <<data, file, clock>>

DerivePluginId ==
    /\ result.op = "input"
    /\ result.detail = "git_url"
    /\ LET derived == derive_plugin_id(result.args.git_url) IN
        result' = Outcome("derive_plugin_id", IF derived = None THEN "InvalidIdentifier" ELSE "ok", "",
                          [git_url |-> result.args.git_url, derived |-> derived])
    /\ UNCHANGED <<data, file, clock>>

NextText ==
    \/ ParseRefs
    \/ DerivePluginId

SpecText == InitText /\ [][NextText]_vars

\* the ref commands on a file with plugin a, which has no refs, and plugin
\* b, which was added with a refs specification
\* --- the validator alone ---
InitManifest ==
    /\ file = <<>>
    /\ data = _load(<<>>)
    /\ clock = 1
    /\ \E manifest \in Manifests : result = Outcome("input", "", "manifest", [manifest |-> manifest])

ValidateManifestDict ==
    /\ result.op = "input"
    /\ result.detail = "manifest"
    /\ result' = Outcome("validate_manifest_dict", "ok", "",
                         [manifest |-> result.args.manifest, errors |-> validate_manifest_dict(result.args.manifest)])
    /\ UNCHANGED <<data, file, clock>>

ValidateManifest ==
    /\ result.op = "input"
    /\ result.detail = "manifest"
    /\ LET raised == ValidationError(result.args.manifest)
       IN result' = Outcome("validate_manifest", IF raised = None THEN "ok" ELSE "ValidationFailed", "",
                            [manifest |-> result.args.manifest, raised |-> raised])
    /\ UNCHANGED <<data, file, clock>>

NextManifest == ValidateManifestDict \/ ValidateManifest

SpecManifest == InitManifest /\ [][NextManifest]_vars

InitRefFiles ==
    {save(add_plugin(add_plugin(_load(<<>>), CallA.git_url, CallA.trust_level, CallA.categories, CallA.refs, Some(ManifestA1), 1).data,
                     CallB.git_url, CallB.trust_level, CallB.categories, Some(refs), Some(ManifestB), 2).data).file :
        refs \in {RefsDevMain, RefsDup, RefsTwice}}

InitRefs ==
    /\ file \in InitRefFiles
    /\ data = _load(file)
    /\ clock = 3
    /\ result = Outcome("init", "ok", "", <<>>)

NextRefs ==
    \/ CmdPluginRefAdd
    \/ CmdPluginRefEdit
    \/ CmdPluginRefRemove

SpecRefs == InitRefs /\ [][NextRefs]_vars

\* --- the redirect command alone, on files where plugin b was given no,
\* one or two redirects at the time 2 ---
InitRedirectFiles ==
    LET WithRedirects(f) ==
            {f,
             cmd_plugin_redirect(f, IdB, Some(UrlOld), "add", FALSE, 2).file,
             cmd_plugin_redirect(cmd_plugin_redirect(f, IdB, Some(UrlOld2), "add", FALSE, 2).file,
                                 IdB, Some(UrlOld), "add", FALSE, 2).file}
    IN UNION {WithRedirects(f) : f \in InitRefFiles}

InitRedirect ==
    /\ file \in InitRedirectFiles
    /\ data = _load(file)
    /\ clock = 3
    /\ result = Outcome("init", "ok", "", <<>>)

NextRedirect == CmdPluginRedirect

SpecRedirect == InitRedirect /\ [][NextRedirect]_vars

\* ---------------------------------------------------------------------
\* Properties
\* ---------------------------------------------------------------------
PluginsOf(d) == Get(d, "plugins", <<>>)

\* the plugin entries of the registry file
FilePlugins == PluginsOf(_load(file))

Unique(plugins, field) == \A i, j \in 1..Len(plugins) : i # j => plugins[i][field] # plugins[j][field]

\* C1: no two plugin entries, in the registry file or in a registry object,
\* share the same id, the same uuid or the same git_url.
C1_IdentityUnique ==
    \A field \in {"id", "uuid", "git_url"} : Unique(FilePlugins, field) /\ Unique(PluginsOf(data), field)

\* the outcome of add_plugin on the current registry
AddOutcome(call, fetched) ==
    add_plugin(data, call.git_url, call.trust_level, call.categories, call.refs, fetched, now_iso8601)

\* the call passes every check that comes before the duplicate checks
CallValid(call, fetched) ==
    /\ \E i \in 1..Len(REGISTRY_TRUST_LEVELS) : REGISTRY_TRUST_LEVELS[i] = call.trust_level
    /\ SupportedHost(call.git_url)
    /\ fetched # None
    /\ validate_manifest_dict(fetched[1]) = <<>>
    /\ derive_plugin_id(call.git_url) # None

SharesUrl(plugins, git_url) == \E i \in 1..Len(plugins) : plugins[i].git_url = git_url

SharesUuid(plugins, uuid) == \E i \in 1..Len(plugins) : plugins[i].uuid = uuid

SharesId(plugins, git_url) ==
    derive_plugin_id(git_url) # None /\ \E i \in 1..Len(plugins) : plugins[i].id = derive_plugin_id(git_url)[1]

\* C2: add_plugin for a git_url, a manifest uuid or a derived id that an
\* existing entry already has never succeeds and leaves the registry as it
\* was; when the call is otherwise valid the error is a duplicate-entry error.
C2_DuplicateRejected ==
    \A in \in AddInputs :
        LET out == AddOutcome(in.call, in.fetched) IN
        (/\ in.fetched # None
         /\ Has(in.fetched[1], "uuid")
         /\ \/ SharesUrl(PluginsOf(data), in.call.git_url)
            \/ SharesUuid(PluginsOf(data), in.fetched[1].uuid)
            \/ SharesId(PluginsOf(data), in.call.git_url))
        => /\ out.status # "ok"
           /\ out.data = data
           /\ CallValid(in.call, in.fetched) => out.status = "DuplicateEntry"

\* a second add_plugin with the git_url of an existing entry has failed
C2_Witness ==
    /\ result.op = "add_plugin"
    /\ result.status = "DuplicateEntry"
    /\ result.detail = "git_url"
    /\ SharesUrl(PluginsOf(data), result.args.git_url)

\* C3 as stated: the kind of duplicate reported is git_url whenever any
\* entry shares the git_url, uuid only when none shares the git_url, and id
\* only when none shares git_url or uuid.
C3_KindByField ==
    \A in \in AddInputs :
        LET out == AddOutcome(in.call, in.fetched) IN
        out.status = "DuplicateEntry"
        => out.detail =
              IF SharesUrl(PluginsOf(data), in.call.git_url) THEN "git_url"
              ELSE IF SharesUuid(PluginsOf(data), in.fetched[1].uuid) THEN "uuid"
              ELSE "id"

\* the first entry that shares the git_url or the uuid
FirstSharing(plugins, git_url, uuid) ==
    CHOOSE i \in 1..Len(plugins) :
        /\ plugins[i].git_url = git_url \/ plugins[i].uuid = uuid
        /\ \A j \in 1..(i - 1) : plugins[j].git_url # git_url /\ plugins[j].uuid # uuid

\* C3 amended: the entries are walked in list order and the first entry that
\* shares the git_url or the uuid decides the kind (git_url if it shares the
\* git_url, else uuid); id is reported only when no entry shares either.
C3_KindByFirstEntry ==
    \A in \in AddInputs :
        LET out == AddOutcome(in.call, in.fetched)
            git_url == in.call.git_url
        IN out.status = "DuplicateEntry"
           => out.detail =
                 IF ~SharesUrl(PluginsOf(data), git_url) /\ ~SharesUuid(PluginsOf(data), in.fetched[1].uuid) THEN "id"
                 ELSE IF PluginsOf(data)[FirstSharing(PluginsOf(data), git_url, in.fetched[1].uuid)].git_url = git_url THEN "git_url"
                 ELSE "uuid"

\* an add_plugin that collided with two different entries has failed: an
\* earlier entry shares the uuid and a later one the git_url
C3_Witness ==
    /\ result.op = "add_plugin"
    /\ result.status = "DuplicateEntry"
    /\ \E i, j \in 1..Len(PluginsOf(data)) :
        /\ i < j
        /\ data.plugins[i].uuid = result.args.uuid
        /\ data.plugins[i].git_url # result.args.git_url
        /\ data.plugins[j].git_url = result.args.git_url

\* the outcome of update_plugin on the current registry
UpdateOutcome(in) == update_plugin(data, in.plugin_id, in.ref, in.fetched, now_iso8601)

\* the entry with the id (there is one)
EntryOf(plugins, plugin_id) == plugins[find_plugin(plugins, plugin_id)]

IDENTITY_FIELDS == {"id", "uuid", "git_url", "added_at"}

\* C4: update_plugin, successful or not, leaves id, uuid, git_url and
\* added_at of the entry it updates as they were, leaves every other entry
\* as it was, and adds or removes no entry.
C4_UpdateKeepsIdentity ==
    \A in \in UpdateInputs :
        LET out == UpdateOutcome(in)
            before == PluginsOf(data)
            after == PluginsOf(out.data)
        IN /\ DOMAIN out.data = DOMAIN data
           /\ Len(after) = Len(before)
           /\ \A i \in 1..Len(before) :
                IF before[i].id = in.plugin_id
                THEN \A field \in IDENTITY_FIELDS : after[i][field] = before[i][field]
                ELSE after[i] = before[i]

\* an update_plugin has succeeded on one of two entries: the entry was
\* stamped after it was added
C4_Witness ==
    /\ result.op = "update_plugin"
    /\ result.status = "ok"
    /\ Len(PluginsOf(data)) = 2
    /\ EntryOf(data.plugins, result.args.plugin_id).updated_at > EntryOf(data.plugins, result.args.plugin_id).added_at

\* C5: when the manifest was fetched for an existing entry, a valid manifest
\* with another uuid makes update_plugin fail with the uuid-mismatch error,
\* an invalid manifest makes it fail with the validation error, and in both
\* cases the registry, hence every field of the entry, stays as it was.
C5_UuidMismatchKeepsEntry ==
    \A in \in UpdateInputs :
        LET out == UpdateOutcome(in)
            plugins == PluginsOf(data)
        IN (find_plugin(plugins, in.plugin_id) # 0 /\ in.fetched # None /\ SupportedHost(EntryOf(plugins, in.plugin_id).git_url))
           => /\ validate_manifest_dict(in.fetched[1]) # <<>> => out.status = "ValidationFailed"
              /\ (validate_manifest_dict(in.fetched[1]) = <<>> /\ in.fetched[1].uuid # EntryOf(plugins, in.plugin_id).uuid)
                 => out.status = "UuidMismatch"
              /\ out.status \in {"UuidMismatch", "ValidationFailed"} => out.data = data

\* an update_plugin has failed with the uuid-mismatch error on an entry
\* that exists
C5_Witness ==
    /\ result.op = "update_plugin"
    /\ result.status = "UuidMismatch"
    /\ find_plugin(PluginsOf(data), result.args.plugin_id) # 0

\* the entry carries the manifest's name, description, authors and
\* optional fields
MatchesManifest(plugin, manifest) ==
    /\ plugin.name = manifest.name
    /\ plugin.description = manifest.description
    /\ plugin.authors = (IF Has(manifest, "authors") THEN manifest.authors ELSE <<>>)
    /\ \A field \in {"maintainers", "name_i18n", "description_i18n"} :
        /\ Has(plugin, field) <=> Has(manifest, field)
        /\ Has(manifest, field) => plugin[field] = manifest[field]

\* C6: the entry a successful update_plugin has updated, and the entry a
\* successful add_plugin has appended, carry the manifest's name,
\* description and authors (the empty list without authors) and have each
\* of maintainers, name_i18n, description_i18n exactly when the manifest
\* has it, with its value.
C6_FieldsFollowManifest ==
    /\ \A in \in UpdateInputs :
        LET out == UpdateOutcome(in) IN
        out.status = "ok" => MatchesManifest(EntryOf(out.data.plugins, in.plugin_id), in.fetched[1])
    /\ \A in \in AddInputs :
        LET out == AddOutcome(in.call, in.fetched) IN
        out.status = "ok" => MatchesManifest(out.data.plugins[Len(out.data.plugins)], in.fetched[1])

\* an entry added from a manifest with maintainers and name_i18n has been
\* updated from a manifest without them: both fields are gone and
\* description_i18n has come
C6_Witness ==
    /\ result.op = "update_plugin"
    /\ result.status = "ok"
    /\ result.args.fetched = Some(ManifestA2)
    /\ LET plugin == EntryOf(data.plugins, result.args.plugin_id) IN
        /\ plugin.added_at < plugin.updated_at
        /\ plugin.name = "n2"
        /\ ~Has(plugin, "maintainers")
        /\ ~Has(plugin, "name_i18n")
        /\ Has(plugin, "description_i18n")

\* the commands that change one plugin entry
MutationOps == {"plugin edit", "plugin update", "redirect add", "redirect remove", "ref add", "ref edit", "ref remove"}

\* a command step: no entry that stays in the file changes its added_at,
\* and after a successful mutation the entry's updated_at is the reading of
\* the clock the command took, later than the value before and not before
\* added_at
C7_Step ==
    LET plugins == FilePlugins
        plugins_after == FilePlugins'
    IN /\ \A i \in 1..Len(plugins) : \A j \in 1..Len(plugins_after) :
           plugins[i].id = plugins_after[j].id => plugins_after[j].added_at = plugins[i].added_at
       /\ (result'.op \in MutationOps /\ result'.status = "ok")
          => LET before == EntryOf(plugins, result'.args.plugin_id)
                 after == EntryOf(plugins_after, result'.args.plugin_id)
             IN /\ after.updated_at = now_iso8601
                /\ after.updated_at > before.updated_at
                /\ after.updated_at >= after.added_at

C8_RefAddExistingFails ==
    \A plugin_id \in PluginIds, ref_name \in RefNames, d \in RefDetails :
        LET out == cmd_plugin_ref_add(file, plugin_id, ref_name, d.description, d.min_api_version, d.max_api_version, now_iso8601) IN
        (/\ find_plugin(FilePlugins, plugin_id) # 0
         /\ Has(EntryOf(FilePlugins, plugin_id), "refs")
         /\ \E k \in 1..Len(EntryOf(FilePlugins, plugin_id).refs) : EntryOf(FilePlugins, plugin_id).refs[k].name = ref_name)
        => /\ out.status = "Error"
           /\ out.file = file

\* a "ref add" has failed for a name the plugin's ref list has
C8_Witness ==
    /\ result.op = "ref add"
    /\ result.status = "Error"
    /\ find_plugin(FilePlugins, result.args.plugin_id) # 0
    /\ \E k \in 1..Len(EntryOf(FilePlugins, result.args.plugin_id).refs) :
        EntryOf(FilePlugins, result.args.plugin_id).refs[k].name = result.args.ref_name

\* the names of the refs are not empty and differ from each other
RefNamesValid(plugin) ==
    Has(plugin, "refs")
    => /\ \A k \in 1..Len(plugin.refs) : Len(plugin.refs[k].name) > 0
       /\ \A k, l \in 1..Len(plugin.refs) : k # l => plugin.refs[k].name # plugin.refs[l].name

\* C9: every ref name of every plugin entry, in a registry object and in
\* the file, is a non-empty string that occurs once in its ref list.
C9_RefNamesValid ==
    /\ \A i \in 1..Len(PluginsOf(data)) : RefNamesValid(data.plugins[i])
    /\ \A i \in 1..Len(FilePlugins) : RefNamesValid(FilePlugins[i])

\* C10: no plugin entry of the file or of a registry object has an empty
\* refs list: an entry has no refs key or at least one ref.
C10_RefsNeverEmpty ==
    /\ \A i \in 1..Len(FilePlugins) : Has(FilePlugins[i], "refs") => Len(FilePlugins[i].refs) > 0
    /\ \A i \in 1..Len(PluginsOf(data)) : Has(data.plugins[i], "refs") => Len(data.plugins[i].refs) > 0

\* "ref remove" has removed the last ref of an entry: the entry is stored
\* without a refs key
C10_Witness ==
    /\ result.op = "ref remove"
    /\ result.status = "ok"
    /\ ~Has(EntryOf(FilePlugins, result.args.plugin_id), "refs")
    /\ Has(EntryOf(PluginsOf(data), result.args.plugin_id), "refs")

\* the refs stored in the file for the plugin
StoredRefs(plugin_id) ==
    IF Has(EntryOf(FilePlugins, plugin_id), "refs") THEN EntryOf(FilePlugins, plugin_id).refs ELSE <<>>

HasName(refs, name) == \E k \in 1..Len(refs) : refs[k].name = name

\* C11: "ref edit" of a ref name the plugin's ref list does not have, and
\* "ref edit" with a (non-empty) new name that differs from the current one
\* and is the name of a ref of the plugin, end in an error and leave the
\* file, hence every ref and updated_at, as it was.
C11_RefEditFails ==
    \A plugin_id \in PluginIds, ref_name \in RefNames, e \in RefEdits :
        LET out == cmd_plugin_ref_edit(file, plugin_id, ref_name, e.new_name, e.description, e.min_api_version, e.max_api_version, now_iso8601) IN
        (/\ find_plugin(FilePlugins, plugin_id) # 0
         /\ \/ ~HasName(StoredRefs(plugin_id), ref_name)
            \/ /\ e.new_name # None
               /\ Len(e.new_name[1]) > 0
               /\ e.new_name[1] # ref_name
               /\ HasName(StoredRefs(plugin_id), e.new_name[1]))
        => /\ out.status = "Error"
           /\ out.file = file

\* a "ref edit" that renames an existing ref to the name of another ref of
\* the plugin has failed
C11_Witness ==
    /\ result.op = "ref edit"
    /\ result.status = "Error"
    /\ HasName(StoredRefs(result.args.plugin_id), result.args.ref_name)
    /\ result.args.new_name # None
    /\ result.args.new_name[1] # result.args.ref_name
    /\ HasName(StoredRefs(result.args.plugin_id), result.args.new_name[1])

\* C12: "ref remove" ends in an error and leaves the file as it was when the
\* plugin has no stored refs or none with the name; otherwise it succeeds
\* and the stored refs are the former ones without those of that name, in
\* their former order (no refs key when none is left).
C12_RefRemove ==
    \A plugin_id \in PluginIds, ref_name \in RefNames :
        LET out == cmd_plugin_ref_remove(file, plugin_id, ref_name, now_iso8601)
            refs == StoredRefs(plugin_id)
            kept == SelectSeq(refs, LAMBDA r : r.name # ref_name)
            after == EntryOf(PluginsOf(_load(out.file)), plugin_id)
        IN find_plugin(FilePlugins, plugin_id) # 0
           => IF ~HasName(refs, ref_name)
              THEN out.status = "Error" /\ out.file = file
              ELSE /\ out.status = "ok"
                   /\ Has(after, "refs") <=> kept # <<>>
                   /\ kept # <<>> => after.refs = kept

\* "ref remove" has removed the two refs of one name from a list of three:
\* the third ref is what is stored
C12_Witness ==
    /\ result.op = "ref remove"
    /\ result.status = "ok"
    /\ LET before == EntryOf(PluginsOf(data), result.args.plugin_id).refs IN
        /\ Len(before) = 3
        /\ Len(StoredRefs(result.args.plugin_id)) = 1
        /\ ~HasName(StoredRefs(result.args.plugin_id), result.args.ref_name)

\* plugins in ascending id order
SortedById(plugins) == \A i \in 1..(Len(plugins) - 1) : ~StrLess(plugins[i + 1].id, plugins[i].id)

\* C13: the file a successful save has written loads to a registry with
\* both collections, the api_version, the plugin entries (in ascending id
\* order) and the blacklist entries of the registry that was saved.
C13_RoundTrip ==
    (result.op = "save" /\ result.status = "ok")
    => LET loaded == _load(file) IN
       /\ Has(loaded, "plugins")
       /\ Has(loaded, "blacklist")
       /\ loaded.api_version = data.api_version
       /\ loaded.plugins = data.plugins
       /\ loaded.blacklist = data.blacklist
       /\ SortedById(loaded.plugins)

IDENTIFIERS == {"url", "uuid", "url_regex"}

\* the identifiers a call supplies
Supplied(call) == {k \in IDENTIFIERS : call[k] # None /\ Len(call[k][1]) > 0}

\* C14: add_blacklist without a reason, or with an empty one, fails with the
\* reason error; with a reason and no identifier it fails with the
\* identifier error; a failure leaves the registry as it was. Otherwise it
\* appends one entry that holds the reason, the time of the call and the
\* identifiers supplied, and nothing else. Every blacklist entry has a
\* non-empty reason and at least one identifier.
C14_BlacklistAdd ==
    /\ \A call \in BlacklistCalls :
        LET out == add_blacklist(data, call.url, call.uuid, call.url_regex, call.reason, clock)
            reasonGiven == call.reason # None /\ call.reason[1] # ""
        IN IF ~reasonGiven
           THEN out.status = "InvalidArgument" /\ out.detail = "reason" /\ out.data = data
           ELSE IF Supplied(call) = {}
           THEN out.status = "InvalidArgument" /\ out.detail = "identifier" /\ out.data = data
           ELSE /\ out.status = "ok"
                /\ Len(out.data.blacklist) = Len(data.blacklist) + 1
                /\ SubSeq(out.data.blacklist, 1, Len(data.blacklist)) = data.blacklist
                /\ [out.data EXCEPT !.blacklist = data.blacklist] = data
                /\ LET entry == out.data.blacklist[Len(out.data.blacklist)] IN
                    /\ DOMAIN entry = {"reason", "blacklisted_at"} \cup Supplied(call)
                    /\ entry.reason = call.reason[1]
                    /\ entry.blacklisted_at = clock
                    /\ \A k \in Supplied(call) : entry[k] = call[k][1]
    /\ \A i \in 1..Len(data.blacklist) :
        /\ data.blacklist[i].reason # ""
        /\ DOMAIN data.blacklist[i] \cap IDENTIFIERS # {}

\* an add_blacklist with the three identifiers has succeeded: the last
\* entry holds them, the reason and the time
C14_Witness ==
    /\ result.op = "add_blacklist"
    /\ result.status = "ok"
    /\ Supplied(result.args) = IDENTIFIERS
    /\ Len(data.blacklist) > 0
    /\ DOMAIN data.blacklist[Len(data.blacklist)] = {"reason", "blacklisted_at"} \cup IDENTIFIERS
    /\ data.blacklist[Len(data.blacklist)].blacklisted_at = clock - 1

\* C15: remove_blacklist keeps, in their order and unchanged, exactly the
\* entries that have neither the url supplied nor the uuid supplied; an
\* identifier that is not supplied matches no entry.
C15_BlacklistRemove ==
    \A call \in BlacklistRemovals :
        LET hit(e) == \/ call.url # None /\ Has(e, "url") /\ e.url = call.url[1]
                      \/ call.uuid # None /\ Has(e, "uuid") /\ e.uuid = call.uuid[1]
            keep(e) == ~hit(e)
        IN remove_blacklist(data.blacklist, call.url, call.uuid) = SelectSeq(data.blacklist, keep)

\* a remove_blacklist by url alone has removed an entry and has kept an
\* entry that has a uuid and no url
C15_Witness ==
    /\ result.op = "remove_blacklist"
    /\ result.args.url = Some(UrlA)
    /\ result.args.uuid = None
    /\ Len(data.blacklist) < clock - 3
    /\ \E i \in 1..Len(data.blacklist) : ~Has(data.blacklist[i], "url") /\ Has(data.blacklist[i], "uuid")
    /\ \A i \in 1..Len(data.blacklist) : Has(data.blacklist[i], "url") => data.blacklist[i].url # UrlA

\* the positions of the commas of a specification
CommaAt(s) == {i \in 1..Len(s) : s[i] = ","}

\* the position of the k-th comma; 0 before the first segment and
\* Len(s) + 1 after the last
NthComma(s, k) ==
    IF k = 0 THEN 0
    ELSE IF k > Cardinality(CommaAt(s)) THEN Len(s) + 1
    ELSE CHOOSE i \in CommaAt(s) : Cardinality({j \in CommaAt(s) : j <= i}) = k

\* the k-th comma-delimited segment
Segment(s, k) == SubSeq(s, NthComma(s, k - 1) + 1, NthComma(s, k) - 1)

MAIN_40 == [name |-> <<"m","a","i","n">>, min_api_version |-> <<"4",".","0">>]

PICARD_V3 == [name |-> <<"p","i","c","a","r","d","-","v","3">>, min_api_version |-> <<"3",".","0">>, max_api_version |-> <<"3",".","9","9">>]

\* C16: _parse_refs returns one record per comma-delimited segment, the
\* k-th record being the parse of the k-th segment, and
\* "main:4.0,picard-v3:3.0-3.99" gives [{main, min 4.0},
\* {picard-v3, min 3.0, max 3.99}].
C16_OneRefPerSegment ==
    result.op = "_parse_refs"
    => LET s == result.args.refs_str
           refs == result.args.refs
       IN /\ Len(refs) = Cardinality(CommaAt(s)) + 1
          /\ \A k \in 1..Len(refs) : refs[k] = ParseRefSpec(Segment(s, k))
          /\ s = RefsExample => refs = <<MAIN_40, PICARD_V3>>

\* the example has been parsed
C16_Witness ==
    /\ result.op = "_parse_refs"
    /\ result.args.refs_str = RefsExample
    /\ Len(result.args.refs) = 2

\* the text before and after the first occurrence of c
Before(s, c) == SubSeq(s, 1, (CHOOSE i \in 1..Len(s) : s[i] = c /\ \A j \in 1..(i - 1) : s[j] # c) - 1)

After(s, c) == SubSeq(s, (CHOOSE i \in 1..Len(s) : s[i] = c /\ \A j \in 1..(i - 1) : s[j] # c) + 1, Len(s))

Trim(s) == Strip(s, SpaceChars)

\* C17 as stated: the name is the text before the first colon, the
\* constraint the text after it, min_api_version the constraint or the
\* text before its first hyphen and max_api_version the text after that
\* hyphen, each exactly as it stands in the trimmed segment.
C17_PartsAsWritten ==
    result.op = "_parse_refs"
    => \A k \in 1..Len(result.args.refs) :
        LET seg == Trim(Segment(result.args.refs_str, k))
            ref == result.args.refs[k]
        IN IF ~HasChar(seg, ":") THEN ref = [name |-> seg]
           ELSE IF ~HasChar(After(seg, ":"), "-")
           THEN ref = [name |-> Before(seg, ":"), min_api_version |-> After(seg, ":")]
           ELSE ref = [name |-> Before(seg, ":"),
                       min_api_version |-> Before(After(seg, ":"), "-"),
                       max_api_version |-> After(After(seg, ":"), "-")]

\* C17 amended: as stated, but the name, min_api_version and
\* max_api_version are the respective texts with the whitespace around
\* them removed.
C17_PartsTrimmed ==
    result.op = "_parse_refs"
    => \A k \in 1..Len(result.args.refs) :
        LET seg == Trim(Segment(result.args.refs_str, k))
            ref == result.args.refs[k]
        IN IF ~HasChar(seg, ":") THEN ref = [name |-> seg]
           ELSE IF ~HasChar(After(seg, ":"), "-")
           THEN ref = [name |-> Trim(Before(seg, ":")), min_api_version |-> Trim(After(seg, ":"))]
           ELSE ref = [name |-> Trim(Before(seg, ":")),
                       min_api_version |-> Trim(Before(After(seg, ":"), "-")),
                       max_api_version |-> Trim(After(After(seg, ":"), "-"))]

\* " p-v : 3 - 4-5 ,m" has been parsed: the name keeps its hyphen, the
\* constraint is split at its first hyphen and the parts are trimmed
C17_Witness ==
    /\ result.op = "_parse_refs"
    /\ result.args.refs_str = RefsSpaced
    /\ result.args.refs = << [name |-> <<"p","-","v">>, min_api_version |-> <<"3">>, max_api_version |-> <<"4","-","5">>],
                             [name |-> <<"m">>] >>

\* the repository name without the first of the three prefixes it starts
\* with, compared in lower case
OnePrefixRemoved(name) ==
    IF StartsWith(Lower(name), <<"p","i","c","a","r","d","-","p","l","u","g","i","n","-">>) THEN SubSeq(name, 15, Len(name))
    ELSE IF StartsWith(Lower(name), <<"p","i","c","a","r","d","-">>) THEN SubSeq(name, 8, Len(name))
    ELSE IF StartsWith(Lower(name), <<"p","l","u","g","i","n","-">>) THEN SubSeq(name, 8, Len(name))
    ELSE name

\* the repository name of a URL that has one
RepoNameOf(git_url) == RepoGroup(RStrip(git_url, {"/"}))

HasRepoName(git_url) == RepoMatchStarts(RStrip(git_url, {"/"})) # {}

\* C18: the identifier is the normalised repository name from which at most
\* one prefix was removed: the first of "picard-plugin-", "picard-",
\* "plugin-" the name starts with in lower case; what follows the removed
\* prefix is kept even if it starts with such a prefix again.
C18_OnePrefixRemoved ==
    (result.op = "derive_plugin_id" /\ HasRepoName(result.args.git_url))
    => LET id == NormalizeId(OnePrefixRemoved(RepoNameOf(result.args.git_url)))
       IN result.args.derived = (IF Len(id) = 0 THEN None ELSE Some(id))

\* "h/picard-plugin-Picard-x1" has given "picard-x1"
C18_Witness ==
    /\ result.op = "derive_plugin_id"
    /\ result.args.git_url = <<"h","/","p","i","c","a","r","d","-","p","l","u","g","i","n","-","P","i","c","a","r","d","-","x","1">>
    /\ result.args.derived = Some(<<"p","i","c","a","r","d","-","x","1">>)

\* C19: an identifier derive_plugin_id returns is not empty, has only the
\* characters a-z, 0-9 and "-", has no two hyphens in a row and neither
\* starts nor ends with a hyphen.
C19_IdWellFormed ==
    (result.op = "derive_plugin_id" /\ result.status = "ok")
    => LET id == result.args.derived[1] IN
       /\ Len(id) > 0
       /\ \A i \in 1..Len(id) : id[i] \in LowerChars \cup DigitChars \cup {"-"}
       /\ \A i \in 1..(Len(id) - 1) : ~(id[i] = "-" /\ id[i + 1] = "-")
       /\ id[1] # "-"
       /\ id[Len(id)] # "-"

\* "h/_My__P-" has given "my-p"
C19_Witness ==
    /\ result.op = "derive_plugin_id"
    /\ result.status = "ok"
    /\ result.args.git_url = <<"h","/","_","M","y","_","_","P","-">>
    /\ result.args.derived = Some(<<"m","y","-","p">>)

\* the texts C20 appends to a URL
URL_SUFFIXES == {GitSuffix, <<"/">>, GitSuffix \o <<"/">>}

\* C20 as stated: for every URL, the URL with ".git", "/" or ".git/"
\* appended gives what the URL gives.
C20_SuffixIgnored ==
    result.op = "derive_plugin_id"
    => \A suffix \in URL_SUFFIXES : derive_plugin_id(result.args.git_url \o suffix) = result.args.derived

\* C20 amended: a trailing slash appended to any URL changes nothing; ".git"
\* or ".git/" appended changes nothing when the URL does not itself end
\* with a slash or with ".git".
C20_SuffixIgnoredOnce ==
    result.op = "derive_plugin_id"
    => /\ derive_plugin_id(result.args.git_url \o <<"/">>) = result.args.derived
       /\ (~EndsWith(result.args.git_url, <<"/">>) /\ ~EndsWith(result.args.git_url, GitSuffix))
          => \A suffix \in URL_SUFFIXES : derive_plugin_id(result.args.git_url \o suffix) = result.args.derived

\* "h/My__P" has given "my-p", and so does "h/My__P.git/"
C20_Witness ==
    /\ result.op = "derive_plugin_id"
    /\ result.args.git_url = <<"h","/","M","y","_","_","P">>
    /\ result.args.derived = Some(<<"m","y","-","p">>)
    /\ derive_plugin_id(result.args.git_url \o GitSuffix \o <<"/">>) = result.args.derived

SCHEME_MARK == <<":","/","/">>

\* the URL without its scheme ("https://") when it has one
WithoutScheme(git_url) ==
    IF Contains(git_url, SCHEME_MARK)
    THEN LET i == CHOOSE k \in 1..Len(git_url) :
                     /\ SubSeq(git_url, k, k + 2) = SCHEME_MARK
                     /\ \A j \in 1..(k - 1) : SubSeq(git_url, j, j + 2) # SCHEME_MARK
         IN SubSeq(git_url, i + 3, Len(git_url))
    ELSE git_url

\* the URL names a path segment after the host: without scheme and
\* trailing slashes it still has a slash
HasPathSegment(git_url) == HasChar(RStrip(WithoutScheme(git_url), {"/"}), "/")

\* C21: derive_plugin_id fails with the invalid-identifier error and returns
\* no identifier for a URL without a path segment (the empty string, a text
\* without a slash, a URL of a host alone) and for a URL whose repository
\* name is empty after prefix removal and normalisation.
C21_FailsWithoutSegment ==
    result.op = "derive_plugin_id"
    => ((\/ ~HasPathSegment(result.args.git_url)
         \/ Len(NormalizeId(OnePrefixRemoved(RepoNameOf(result.args.git_url)))) = 0)
        => result.status = "InvalidIdentifier" /\ result.args.derived = None)

Range(seq) == {seq[i] : i \in 1..Len(seq)}

\* the failures of a manifest, check by check
ExpectedErrors(manifest) ==
    {[error |-> "Missing required field", value |-> key] : key \in Range(REQUIRED_FIELDS) \ DOMAIN manifest}
    \cup (IF Has(manifest, "uuid") /\ ~IsUuid(manifest.uuid) THEN {[error |-> "Invalid uuid", value |-> "uuid"]} ELSE {})
    \cup (IF Has(manifest, "categories")
          THEN {[error |-> "Invalid category", value |-> c] : c \in Range(manifest.categories) \ VALID_CATEGORIES}
          ELSE {})
    \cup (IF Has(manifest, "long_description") /\ HasHtmlTag(manifest.long_description)
          THEN {[error |-> "HTML tags are not allowed", value |-> "long_description"]}
          ELSE {})

\* C22: the validator reports every failure: the list holds "Missing required
\* field" for each absent required key and the errors of the uuid, category
\* and long_description checks whatever else failed; it is empty exactly when
\* no check fails, and validate_manifest raises, carrying the whole list,
\* exactly when the list is not empty.
C22_AllErrorsReported ==
    /\ result.op = "validate_manifest_dict"
       => /\ Range(result.args.errors) = ExpectedErrors(result.args.manifest)
          /\ (result.args.errors = <<>>) <=> (ExpectedErrors(result.args.manifest) = {})
    /\ result.op = "validate_manifest"
       => /\ (result.args.raised # None) <=> (validate_manifest_dict(result.args.manifest) # <<>>)
          /\ result.args.raised # None
             => /\ result.args.raised[1] = validate_manifest_dict(result.args.manifest)
                /\ Range(result.args.raised[1]) = ExpectedErrors(result.args.manifest)

\* two required keys missing, and a malformed uuid, an unknown category and
\* an HTML long description all reported in one list
C22_Witness ==
    /\ result.op = "validate_manifest_dict"
    /\ Cardinality(Range(REQUIRED_FIELDS) \ DOMAIN result.args.manifest) = 2
    /\ Cardinality(Range(result.args.errors)) = 6

VERSIONING_SCHEMES == {"semver", "calver", "regex:^v[0-9]+$"}

\* C23: adding a plugin with a versioning_scheme succeeds whenever the same
\* addition without it succeeds, and the new entry written to the registry
\* carries the given value under versioning_scheme.
C23_SchemeStored ==
    \A in \in AddInputs : \A scheme \in VERSIONING_SCHEMES :
        LET plain == add_plugin(_load(file), in.call.git_url, in.call.trust_level, in.call.categories,
                                in.call.refs, in.fetched, now_iso8601)
            out == cmd_plugin_add(file, in.call.git_url, in.call.trust_level, in.call.categories,
                                  in.call.refs, Some(scheme))
        IN plain.status = "ok"
           => /\ out.status = "ok"
              /\ \E i \in 1..Len(out.file[1].plugins) :
                    /\ out.file[1].plugins[i].git_url = in.call.git_url
                    /\ Has(out.file[1].plugins[i], "versioning_scheme")
                    /\ out.file[1].plugins[i].versioning_scheme = scheme

\* C24: add_plugin with a trust level other than official, trusted and
\* community fails with the invalid-trust-level error whatever its other
\* arguments and the fetch would give, before refs are parsed or a manifest is
\* fetched, and leaves the plugin list as it was; so every entry has one of
\* the three trust levels.
C24_TrustLevelChecked ==
    /\ \A call \in AddCalls : \A fetched \in Fetched : \A trust_level \in BadTrustLevels :
           LET out == add_plugin(data, call.git_url, trust_level, call.categories, call.refs, fetched, now_iso8601)
           IN /\ out.status = "InvalidTrustLevel"
              /\ out.ref = None
              /\ out.data = data
    /\ \A i \in 1..Len(PluginsOf(data)) : PluginsOf(data)[i].trust_level \in Range(REGISTRY_TRUST_LEVELS)

\* an addition was refused for its trust level while entries added before
\* are in the list
C24_Witness ==
    /\ result.op = "add_plugin"
    /\ result.status = "InvalidTrustLevel"
    /\ Len(PluginsOf(data)) = 2

\* the entry an addition appended
Added(out) == out.data.plugins[Len(out.data.plugins)]

\* C25: the entry add_plugin creates has no refs key exactly when the parsed
\* ref list is the single ref "main" without version bounds (refs not given,
\* or given as "main"); otherwise its refs is the parsed list, in the order
\* of the specification.
C25_RefsStoredUnlessDefault ==
    \A in \in {[call |-> CallA, fetched |-> Some(ManifestA1)], [call |-> CallB, fetched |-> Some(ManifestB)]} :
        \A refs \in AddRefs :
            LET out == add_plugin(data, in.call.git_url, in.call.trust_level, in.call.categories, refs,
                                  in.fetched, now_iso8601)
                parsed == IF refs = None \/ refs[1] = <<>> THEN << [name |-> DEFAULT_REF] >> ELSE _parse_refs(refs[1])
            IN out.status = "ok"
               => /\ ~Has(Added(out), "refs") <=> parsed = << [name |-> DEFAULT_REF] >>
                  /\ Has(Added(out), "refs") => Added(out).refs = parsed
                  /\ refs \in {None, Some(DEFAULT_REF)} => ~Has(Added(out), "refs")

\* one entry was added without refs and stored without the key, another was
\* added with two refs and stored with both
C25_Witness ==
    /\ result.op = "add_plugin"
    /\ result.status = "ok"
    /\ \E i, j \in 1..Len(PluginsOf(data)) :
          /\ ~Has(PluginsOf(data)[i], "refs")
          /\ Has(PluginsOf(data)[j], "refs")
          /\ Len(PluginsOf(data)[j].refs) = 2

\* the statuses of a call that reached fetch_manifest
FETCHED_STATUSES == {"ok", "FetchError", "ValidationFailed", "UuidMismatch", "InvalidIdentifier", "DuplicateEntry"}

HasId(plugins, plugin_id) == \E i \in 1..Len(plugins) : plugins[i].id = plugin_id

\* C26: update_plugin fetches from the ref the caller gives, else from the
\* name of the first stored ref, else from "main"; add_plugin fetches from the
\* first ref parsed from its refs argument; update_plugin of an unknown id
\* fails with not-found and fetches nothing.
C26_FetchRef ==
    /\ \A plugin_id \in PluginIds : \A ref \in UpdateRefs : \A fetched \in {None, Some(ManifestA1)} :
           LET out == update_plugin(data, plugin_id, ref, fetched, now_iso8601)
               entry == EntryOf(PluginsOf(data), plugin_id)
           IN IF ~HasId(PluginsOf(data), plugin_id)
              THEN out.status = "NotFound" /\ out.ref = None /\ out.data = data
              ELSE /\ out.status \in FETCHED_STATUSES
                   /\ out.ref = (IF ref # None THEN ref
                                 ELSE IF Has(entry, "refs") THEN Some(entry.refs[1].name)
                                 ELSE Some(DEFAULT_REF))
    /\ \A in \in {[call |-> CallA, fetched |-> Some(ManifestA1)], [call |-> CallB, fetched |-> None]} :
           \A refs \in AddRefs :
               LET out == add_plugin(data, in.call.git_url, in.call.trust_level, in.call.categories, refs,
                                     in.fetched, now_iso8601)
                   parsed == IF refs = None \/ refs[1] = <<>> THEN << [name |-> DEFAULT_REF] >> ELSE _parse_refs(refs[1])
               IN out.status \in FETCHED_STATUSES /\ out.ref = Some(parsed[1].name)

\* an update without a ref argument fetched from the first stored ref "dev"
C26_Witness ==
    /\ result.op = "update_plugin"
    /\ result.status = "ok"
    /\ result.args.ref = None
    /\ result.args.from = Some(RefDev)
    /\ Has(EntryOf(PluginsOf(data), result.args.plugin_id), "refs")

\* the field is stored with the value given, or absent when none is given
StoredAsGiven(ref, key, value, given) ==
    IF given THEN Has(ref, key) /\ ref[key] = value[1] ELSE ~Has(ref, key)

\* C27: "ref add" on a plugin without stored refs succeeds, and the plugin's
\* stored ref list is then exactly the new ref: its name, and the description
\* and version bounds that were given.
C27_FirstRefAdded ==
    \A plugin_id \in PluginIds, ref_name \in RefNames,
       d \in RefDetails \cup {[description |-> Some(""), min_api_version |-> Some(V3), max_api_version |-> None]} :
        LET out == cmd_plugin_ref_add(file, plugin_id, ref_name, d.description, d.min_api_version, d.max_api_version, now_iso8601)
            after == EntryOf(PluginsOf(_load(out.file)), plugin_id)
        IN (/\ find_plugin(FilePlugins, plugin_id) # 0
            /\ ~Has(EntryOf(FilePlugins, plugin_id), "refs"))
           => /\ out.status = "ok"
              /\ Has(after, "refs")
              /\ Len(after.refs) = 1
              /\ after.refs[1].name = ref_name
              /\ StoredAsGiven(after.refs[1], "description", d.description, GivenStr(d.description))
              /\ StoredAsGiven(after.refs[1], "min_api_version", d.min_api_version, Given(d.min_api_version))
              /\ StoredAsGiven(after.refs[1], "max_api_version", d.max_api_version, Given(d.max_api_version))

\* a "ref add" with description and both bounds has given the plugin its
\* only ref
C27_Witness ==
    /\ result.op = "ref add"
    /\ result.status = "ok"
    /\ find_plugin(FilePlugins, result.args.plugin_id) # 0
    /\ EntryOf(FilePlugins, result.args.plugin_id).refs
         = << [name |-> result.args.ref_name, description |-> "x", min_api_version |-> V3, max_api_version |-> V3] >>

CLI_OPS ==
    {"plugin add", "plugin update", "plugin edit", "plugin remove", "redirect add", "redirect remove",
     "ref add", "ref edit", "ref remove", "blacklist add", "blacklist remove"}

\* a command step that ends in an error leaves the file as it was; one that
\* succeeds leaves a written registry
C28_Step ==
    result'.op \in CLI_OPS
    => IF result'.status # "ok" THEN file' = file ELSE file' # <<>>

\* C28: a CLI command that ends in an error never writes the registry file,
\* so the persisted registry is the same before and after, and a command
\* that succeeds writes the registry.
C28_ErrorWritesNothing == [][C28_Step]_vars

NoRepeat(list) == \A i, j \in 1..Len(list) : i # j => list[i] # list[j]

\* redirect_from of every entry is absent, or a non-empty list without a
\* URL twice
RedirectsValid(plugins) ==
    \A i \in 1..Len(plugins) :
        Has(plugins[i], "redirect_from") => Len(plugins[i].redirect_from) > 0 /\ NoRepeat(plugins[i].redirect_from)

FileEntry(f, plugin_id) == EntryOf(PluginsOf(_load(f)), plugin_id)

Redirects(f, plugin_id) == Get(FileEntry(f, plugin_id), "redirect_from", <<>>)

RedirectCmd(f, plugin_id, url, mode) == cmd_plugin_redirect(f, plugin_id, Some(url), mode, FALSE, now_iso8601)

\* "plugin redirect <id> <url>" on file f: the URL is in the list afterwards,
\* once, after the URLs that were there
RedirectAdded(f, plugin_id, url) ==
    LET out == RedirectCmd(f, plugin_id, url, "add")
        before == Redirects(f, plugin_id)
    IN /\ out.status = "ok"
       /\ Has(FileEntry(out.file, plugin_id), "redirect_from")
       /\ Redirects(out.file, plugin_id) = (IF InList(before, url) THEN before ELSE Append(before, url))
       /\ RedirectsValid(PluginsOf(_load(out.file)))

\* "plugin redirect <id> <url> --remove" on file f: an error and the same
\* file when the URL is not in the list; else the list without the URL, and
\* no key when it was the last one
RedirectRemoved(f, plugin_id, url) ==
    LET out == RedirectCmd(f, plugin_id, url, "remove")
        before == Redirects(f, plugin_id)
    IN IF ~InList(before, url) THEN out.status = "Error" /\ out.file = f
       ELSE /\ out.status = "ok"
            /\ Redirects(out.file, plugin_id) = SelectSeq(before, LAMBDA u : u # url)
            /\ Has(FileEntry(out.file, plugin_id), "redirect_from") <=> Len(before) > 1
            /\ RedirectsValid(PluginsOf(_load(out.file)))

\* C29: through redirect add and remove commands redirect_from of an entry
\* stays absent or a non-empty list without a URL twice: adding a URL that
\* is present does not add it again, removing the last URL deletes the key,
\* removing a URL that is not present fails and leaves the file as it was.
C29_RedirectList ==
    /\ RedirectsValid(FilePlugins)
    /\ \A plugin_id \in PluginIds : \A url1, url2 \in {UrlOld, UrlOld2} :
           find_plugin(FilePlugins, plugin_id) # 0
           => LET f1 == RedirectCmd(file, plugin_id, url1, "add").file
                  f2 == RedirectCmd(f1, plugin_id, url2, "add").file
                  f3 == RedirectCmd(f2, plugin_id, url1, "remove").file
                  f4 == RedirectCmd(f3, plugin_id, url2, "remove").file
              IN /\ RedirectAdded(file, plugin_id, url1)
                 /\ RedirectAdded(f1, plugin_id, url2)
                 /\ RedirectRemoved(f2, plugin_id, url1)
                 /\ RedirectRemoved(f3, plugin_id, url2)
                 /\ RedirectRemoved(f4, plugin_id, url2)
                 /\ RedirectRemoved(file, plugin_id, url2)

\* a "redirect remove" has removed the last URL of an entry, which has no
\* redirect_from key any more
C29_Witness ==
    /\ result.op = "redirect remove"
    /\ result.status = "ok"
    /\ find_plugin(FilePlugins, result.args.plugin_id) # 0
    /\ ~Has(EntryOf(FilePlugins, result.args.plugin_id), "redirect_from")

\* the registry with nothing on the blacklist
NoBlacklist(d) == [d EXCEPT !.blacklist = <<>>]

\* two outcomes agree on everything but the blacklist
SameButBlacklist(a, b) ==
    /\ a.status = b.status
    /\ a.detail = b.detail
    /\ a.ref = b.ref
    /\ PluginsOf(a.data) = PluginsOf(b.data)

\* C30: add_plugin and update_plugin do not consult the blacklist: with the
\* same plugin list and arguments the outcome is the same whatever is on
\* the blacklist, which they leave as it is; add_blacklist and the blacklist
\* commands leave the plugin list as it is.
C30_BlacklistIgnored ==
    /\ \A in \in {[call |-> CallA, fetched |-> Some(ManifestA1)], [call |-> CallB, fetched |-> Some(ManifestB)]} :
           LET out == add_plugin(data, in.call.git_url, in.call.trust_level, in.call.categories, in.call.refs,
                                 in.fetched, now_iso8601)
               plain == add_plugin(NoBlacklist(data), in.call.git_url, in.call.trust_level, in.call.categories,
                                   in.call.refs, in.fetched, now_iso8601)
           IN SameButBlacklist(out, plain) /\ out.data.blacklist = data.blacklist
    /\ \A in \in UpdateInputs :
           LET out == update_plugin(data, in.plugin_id, in.ref, in.fetched, now_iso8601)
               plain == update_plugin(NoBlacklist(data), in.plugin_id, in.ref, in.fetched, now_iso8601)
           IN SameButBlacklist(out, plain) /\ out.data.blacklist = data.blacklist
    /\ \A call \in BlacklistCalls :
           /\ PluginsOf(add_blacklist(data, call.url, call.uuid, call.url_regex, call.reason, now_iso8601).data) = PluginsOf(data)
           /\ PluginsOf(_load(cmd_blacklist_add(file, call.url, call.uuid, call.url_regex, call.reason, now_iso8601).file)) = FilePlugins
    /\ \A call \in BlacklistRemovals :
           PluginsOf(_load(cmd_blacklist_remove(file, call.url, call.uuid).file)) = FilePlugins

\* the URL and the uuid of a plugin have been put on the blacklist, and
\* add_plugin of that plugin still succeeds
C30_Witness ==
    /\ result.op = "add_blacklist"
    /\ result.status = "ok"
    /\ \E i \in 1..Len(data.blacklist) : GetOpt(data.blacklist[i], "url") = Some(UrlB)
    /\ \E i \in 1..Len(data.blacklist) : GetOpt(data.blacklist[i], "uuid") = Some(UuidB)
    /\ add_plugin(data, CallB.git_url, CallB.trust_level, CallB.categories, CallB.refs, Some(ManifestB), now_iso8601).status = "ok"

====
